---- MODULE Spec2Model ----
(***************************************************************************)
(* Model of the VAL agent's Undo / Time-Travel manager (engine/undo.py),   *)
(* the file-action executor (engine/command_executor.py, engine/scaffold.py*)
(* utils/fs.py) and the pattern-based safety classifier                    *)
(* (core/memory.py: check_safety).                                         *)
(*                                                                         *)
(* The filesystem is a tree of nodes.  A name is a sequence of characters, *)
(* a path a sequence of names.  Library calls (pathlib, shutil.move, glob) *)
(* are modelled with their POSIX behaviour.                                *)
(***************************************************************************)
EXTENDS Integers, Sequences, FiniteSets, TLC

VARIABLES
    fs,         \* the filesystem below the working directory (a dir node)
    stack,      \* UndoManager.stack, the in-memory ledger
    undo_log,   \* content of logs/undo_stack.json (the persisted ledger)
    events,     \* the events table written by memory.log_event
    now,        \* the wall clock (datetime.now(), file modification times)
    nlog,       \* number of log_operation calls made so far
    ret,        \* the last call and what it returned
    safety_rules, \* the rows of the safety_rules table, in rowid order
    verdict,    \* the last check_safety call: its arguments and its result
    usage,      \* AgentGovernor.usage: the three lists of timestamps
    clock,      \* time.time(), in seconds
    gov,        \* the last AgentGovernor.check call: its argument and its result
    routed,     \* the intents the agent has handed to route(), oldest first
    checks,     \* the check calls of the last execute_plan, in order
    state,      \* StateMachine.state
    previous_state, \* StateMachine.previous_state
    pending_action, \* SESSION["pending_action"]
    feedback,   \* the calls of memory.log_feedback, oldest first
    dispatched, \* the intents the daemon loop has handed to route(), oldest first
    handled,    \* the last round of the daemon loop: whether a command was heard,
                \* the state before, the intent, the verdict, what handle_intent
                \* spoke and returned and the state it left
    memory_rows, \* the rows of the memory table, in rowid order
    looked_up,      \* the last get_workflows_for_trigger call and what it gave
    detected,   \* the last detect_repeated_pattern call and what it gave
    flow,       \* SESSION["last_workflow"] and what the last workflow call did
    hooks,      \* the last routed intent of the loop and the calls of
                \* after_intent_execution that followed it
    last_project, \* SESSION["last_project"]
    pc,         \* where the daemon loop is: at the top of an iteration, or
                \* inside route() (and the state the iteration began in)
    actions_count, \* SESSION["actions_count"]
    last_improvement_count, \* SESSION["last_improvement_count"] (-1: unset)
    tuner_runs, \* the calls of self_improver.run()
    project_status, \* SESSION["project_status"]
    file_mtime, \* the newest modification time under the watched project
    last_mtime, \* ProjectWatcher.last_mtime
    reader,     \* the main thread between its test of project_status and
                \* the assignment that clears it, and the changes flagged
                \* when it last found the flag set
    detections, \* the changes the watcher has flagged
    consumptions \* the times the main thread has cleared a flag it saw

undoVars == <<fs, stack, undo_log, events, now, nlog, ret>>
safetyVars == <<safety_rules, verdict>>
agentVars == <<usage, clock, gov, routed, checks>>
machineVars == <<state, previous_state, pending_action, feedback, dispatched, handled>>
memoryVars == <<memory_rows, looked_up, detected>>
flowVars == <<flow, hooks, last_project>>
loopVars == <<pc, actions_count, last_improvement_count, tuner_runs>>
watchVars == <<project_status, file_mtime, last_mtime, reader, detections, consumptions>>
extVars == <<memoryVars, flowVars, loopVars, watchVars>>
coreVars == <<agentVars, machineVars, extVars>>
vars == <<undoVars, safetyVars, coreVars>>

-----------------------------------------------------------------------------
(* Bounds of the model *)

MaxTime == 2
MaxLog == 2
MaxEvents == 2
MaxCount == 2
MaxClock == 3600
MaxAgentEvents == 3
MaxMachineEvents == 8
MaxWrites == 2
MaxMemoryEvents == 4
MaxOccurrences == 2
RecursionLimit == 3
MaxTunerEvents == 80
MaxLoopEvents == 10
MaxMtime == 5
MaxItems == 2

-----------------------------------------------------------------------------
(* Names and paths *)

NameP == <<"p">>
NameA == <<"a">>
NameLogs == <<"l", "o", "g", "s">>
NameTrash == <<"t", "r", "a", "s", "h">>

\* the paths the commands are given
Paths == { <<NameP>>, <<NameP, NameA>>, <<NameA>> }

TRASH_DIR == <<NameLogs, NameTrash>>

Last(s) == s[Len(s)]
Front(s) == SubSeq(s, 1, Len(s) - 1)

\* str(path): the components joined by "/"
RECURSIVE StrOfPath(_)
StrOfPath(path) ==
    IF path = <<>> THEN <<".">>
    ELSE IF Len(path) = 1 THEN Head(path)
    ELSE Head(path) \o <<"/">> \o StrOfPath(Tail(path))

\* Path(s): the string split at "/"
RECURSIVE SplitAt(_, _)
SplitAt(s, acc) ==
    IF s = <<>> THEN (IF acc = <<>> THEN <<>> ELSE <<acc>>)
    ELSE IF Head(s) = "/" THEN (IF acc = <<>> THEN <<>> ELSE <<acc>>) \o SplitAt(Tail(s), <<>>)
    ELSE SplitAt(Tail(s), Append(acc, Head(s)))

PathOfStr(s) == IF s = <<".">> THEN <<>> ELSE SplitAt(s, <<>>)

Digit == <<"1", "2", "3", "4", "5", "6", "7", "8", "9">>

\* str(n) for a natural number
RECURSIVE StrOfNat(_)
StrOfNat(n) ==
    IF n = 0 THEN <<"0">>
    ELSE IF n < 10 THEN <<Digit[n]>>
    ELSE StrOfNat(n \div 10) \o (IF n % 10 = 0 THEN <<"0">> ELSE <<Digit[n % 10]>>)

\* str(st_mtime): a float
StrOfMtime(m) == StrOfNat(m) \o <<".", "0">>

\* strftime('%Y%m%d_%H%M%S'): a date, "_", the time of day to the second
StrOfStamp(t) == <<"d", "_">> \o StrOfNat(t)

\* name in s: s contains name as a contiguous substring
IsSubstr(name, s) ==
    \E i \in 0..(Len(s) - Len(name)) : SubSeq(s, i + 1, i + Len(name)) = name

-----------------------------------------------------------------------------
(* The filesystem tree *)

None == [kind |-> "none", mtime |-> 0, kids |-> <<>>]
File(t) == [kind |-> "file", mtime |-> t, kids |-> <<>>]
Dir(t) == [kind |-> "dir", mtime |-> t, kids |-> <<>>]

RECURSIVE Get(_, _)
Get(node, path) ==
    IF path = <<>> THEN node
    ELSE IF node.kind # "dir" \/ Head(path) \notin DOMAIN node.kids THEN None
    ELSE Get(node.kids[Head(path)], Tail(path))

Exists(tree, path) == Get(tree, path).kind # "none"
IsDir(tree, path) == Get(tree, path).kind = "dir"
IsFile(tree, path) == Get(tree, path).kind = "file"

\* link `new` at path (the parent is a directory); the parent's mtime becomes t
RECURSIVE Put(_, _, _, _)
Put(node, path, new, t) ==
    IF Len(path) = 1
    THEN [node EXCEPT !.kids = (Head(path) :> new) @@ @, !.mtime = t]
    ELSE [node EXCEPT !.kids[Head(path)] = Put(@, Tail(path), new, t)]

\* unlink the entry at path; the parent's mtime becomes t
RECURSIVE Remove(_, _, _)
Remove(node, path, t) ==
    IF Len(path) = 1
    THEN [node EXCEPT !.kids = [n \in (DOMAIN @) \ {Head(path)} |-> @[n]], !.mtime = t]
    ELSE [node EXCEPT !.kids[Head(path)] = Remove(@, Tail(path), t)]

\* os.makedirs / Path.mkdir(parents=True, exist_ok=True) succeeds unless a
\* component of the path is a file
MkdirOk(tree, path) ==
    \A i \in 1..Len(path) : Get(tree, SubSeq(path, 1, i)).kind \in {"none", "dir"}

RECURSIVE MkdirP(_, _, _)
MkdirP(node, path, t) ==
    IF path = <<>> THEN node
    ELSE LET h == Head(path) IN
         IF h \in DOMAIN node.kids
         THEN [node EXCEPT !.kids[h] = MkdirP(@, Tail(path), t)]
         ELSE [node EXCEPT !.kids = (h :> MkdirP(Dir(t), Tail(path), t)) @@ @,
                           !.mtime = t]

\* shutil.move(src, dst): where the source ends up
MoveTarget(tree, src, dst) ==
    IF IsDir(tree, dst) THEN Append(dst, Last(src)) ELSE dst

\* shutil.move(src, dst) returns (rather than raises)
MoveOk(tree, src, dst) ==
    LET real == MoveTarget(tree, src, dst) IN
    /\ Exists(tree, src)
    /\ IF IsDir(tree, dst)
       THEN ~Exists(tree, real)              \* "Destination path already exists"
       ELSE IF IsFile(tree, dst)
       THEN IsFile(tree, src)                \* rename replaces a file by a file
       ELSE IF IsDir(tree, Front(real))
       THEN TRUE                             \* plain rename
       ELSE /\ IsDir(tree, src)              \* copytree makes the parents, copy2 does not
            /\ MkdirOk(tree, Front(real))

\* the tree after a shutil.move that returns
Move(tree, src, dst, t) ==
    LET real == MoveTarget(tree, src, dst)
        node == Get(tree, src)
    IN  Put(MkdirP(Remove(tree, src, t), Front(real), t), real, node, t)

\* Path.glob("*name*") in directory dir: the names of its entries that match
Glob(tree, dir, name) ==
    IF IsDir(tree, dir)
    THEN { n \in DOMAIN Get(tree, dir).kids : IsSubstr(name, n) }
    ELSE {}

\* max(candidates, key=st_mtime): an entry of the greatest mtime (which one of
\* several is the directory order's choice)
Latest(tree, dir, names) ==
    { n \in names : \A m \in names :
        Get(tree, Append(dir, m)).mtime <= Get(tree, Append(dir, n)).mtime }

-----------------------------------------------------------------------------
(* engine/undo.py: the UndoManager *)

StackLimit == 50

\* the part of the program state the undo manager and the executors work on
State == [fs |-> fs, stack |-> stack, undo_log |-> undo_log, events |-> events]

save_stack(st) == [st EXCEPT !.undo_log = st.stack]

_infer_undo_action(operation) ==
    CASE operation = "create_project" -> "delete_project"
      [] operation = "install_dependency" -> "uninstall_dependency"
      [] operation = "git_commit" -> "git_reset_commit"
      [] operation = "delete_file" -> "restore_file"
      [] operation = "delete_folder" -> "restore_folder"
      [] operation = "create_file" -> "delete_file"
      [] operation = "create_folder" -> "delete_folder"
      [] OTHER -> "unknown"

NewEntry(operation, details, t) ==
    [timestamp |-> t, operation |-> operation, details |-> details,
     undo_action |-> _infer_undo_action(operation)]

\* the newest k entries of a ledger: s[-k:]
Newest(s, k) == IF Len(s) > k THEN SubSeq(s, Len(s) - k + 1, Len(s)) ELSE s

\* log_operation keeping the oldest entries (stack[:50]) when it truncates
log_operation_keeps_oldest(st, operation, details, t) ==
    LET appended == save_stack([st EXCEPT !.stack = Append(@, NewEntry(operation, details, t))])
    IN  IF Len(appended.stack) > StackLimit
        THEN save_stack([appended EXCEPT !.stack = SubSeq(@, 1, StackLimit)])
        ELSE appended

log_operation(st, operation, details, t) ==
    LET appended == save_stack([st EXCEPT !.stack = Append(@, NewEntry(operation, details, t))])
    IN  IF Len(appended.stack) > StackLimit
        THEN save_stack([appended EXCEPT !.stack = Newest(@, StackLimit)])
        ELSE appended

log_event(st, event_type, operation) ==
    [st EXCEPT !.events = Append(@, [event_type |-> event_type, operation |-> operation])]

\* An outcome of _execute_undo: raised (an exception left the call) or the
\* message returned, and the filesystem afterwards.
Returned(tree, msg) == [raised |-> FALSE, msg |-> msg, fs |-> tree]
Raised(tree) == [raised |-> TRUE, msg |-> "exception", fs |-> tree]

\* subprocess.run of an external tool: it returns, or raises when the tool
\* is not installed
RunTool(tree, msg) == {Returned(tree, msg), Raised(tree)}

\* restore_file / restore_folder: the newest trash entry whose name contains
\* the path's name is moved back to the path
RestoreFromTrash(tree, details, t, restored, missing) ==
    IF "path" \notin DOMAIN details THEN {Raised(tree)}
    ELSE LET path == PathOfStr(details.path)
             found == Glob(tree, TRASH_DIR, Last(path))
         IN  IF found = {} THEN {Returned(tree, missing)}
             ELSE { IF MoveOk(tree, Append(TRASH_DIR, n), path)
                    THEN Returned(Move(tree, Append(TRASH_DIR, n), path, t), restored)
                    ELSE Raised(tree)
                    : n \in Latest(tree, TRASH_DIR, found) }

_execute_undo(tree, entry, t) ==
    LET details == entry.details
        undo_action == entry.undo_action
    IN  CASE undo_action = "delete_project" ->
                IF "path" \notin DOMAIN details THEN {Raised(tree)}
                ELSE LET project_path == PathOfStr(details.path)
                         trash_path == Append(TRASH_DIR,
                                          Last(project_path) \o <<"_">> \o StrOfStamp(t))
                     IN  IF Exists(tree, project_path)
                         THEN IF MoveOk(tree, project_path, trash_path)
                              THEN {Returned(Move(tree, project_path, trash_path, t),
                                             "Moved project to trash")}
                              ELSE {Raised(tree)}
                         ELSE {Returned(tree, "Project already deleted")}
          [] undo_action = "uninstall_dependency" ->
                LET ptype == IF "type" \in DOMAIN details THEN details.type ELSE "python"
                IN  IF ptype \in {"python", "node"}
                    THEN RunTool(tree, "Uninstalled")
                    ELSE {Returned(tree, "Unknown undo action")}
          [] undo_action = "git_reset_commit" ->
                LET cwd == IF "cwd" \in DOMAIN details THEN PathOfStr(details.cwd) ELSE <<>>
                IN  IF IsDir(tree, cwd)
                    THEN RunTool(tree, "Reset last commit")
                    ELSE {Raised(tree)}
          [] undo_action = "restore_file" ->
                RestoreFromTrash(tree, details, t, "Restored file", "File not found in trash")
          [] undo_action = "restore_folder" ->
                RestoreFromTrash(tree, details, t, "Restored folder", "Folder not found in trash")
          [] OTHER -> {Returned(tree, "Unknown undo action")}

\* What undo_last returns: its first line and the inverse action's message.
NothingToUndo == <<"Nothing to undo", "">>
Undone(msg) == <<"Undone", msg>>
UndoFailed == <<"Undo failed", "exception">>

\* "❌" in result: the two failure replies carry the mark; operation names,
\* paths and the inverse actions' messages carry none
HasCross(result) == result[1] \in {"Nothing to undo", "Undo failed"}

\* undo_last that does not put the entry back when the inverse action raises
undo_last_drops_entry(st, t) ==
    IF st.stack = <<>> THEN {[st |-> st, result |-> NothingToUndo]}
    ELSE LET entry == Last(st.stack)
             popped == save_stack([st EXCEPT !.stack = Front(@)])
         IN  { IF ~o.raised
               THEN [st |-> log_event([popped EXCEPT !.fs = o.fs],
                                      "undo_executed", entry.operation),
                     result |-> Undone(o.msg)]
               ELSE [st |-> log_event(popped, "undo_failed", entry.operation),
                     result |-> UndoFailed]
               : o \in _execute_undo(popped.fs, entry, t) }

\* undo_last: the set of outcomes [st, result]
undo_last(st, t) ==
    IF st.stack = <<>> THEN {[st |-> st, result |-> NothingToUndo]}
    ELSE LET entry == Last(st.stack)
             popped == save_stack([st EXCEPT !.stack = Front(@)])
         IN  { IF ~o.raised
               THEN [st |-> log_event([popped EXCEPT !.fs = o.fs],
                                      "undo_executed", entry.operation),
                     result |-> Undone(o.msg)]
               ELSE [st |-> log_event(
                               save_stack([popped EXCEPT !.fs = o.fs,
                                                         !.stack = Append(@, entry)]),
                               "undo_failed", entry.operation),
                     result |-> UndoFailed]
               : o \in _execute_undo(popped.fs, entry, t) }

\* the loop of undo_multiple without the break on a failed undo (best effort)
RECURSIVE UndoLoopBestEffort(_, _, _, _)
UndoLoopBestEffort(st, left, results, t) ==
    IF left = 0 THEN {[st |-> st, results |-> results]}
    ELSE UNION { UndoLoopBestEffort(o.st, left - 1, Append(results, o.result), t)
                 : o \in undo_last(st, t) }

\* the loop of undo_multiple: `left` iterations remain, `results` so far
RECURSIVE UndoLoop(_, _, _, _)
UndoLoop(st, left, results, t) ==
    IF left = 0 THEN {[st |-> st, results |-> results]}
    ELSE UNION { IF HasCross(o.result)
                 THEN {[st |-> o.st, results |-> Append(results, o.result)]}
                 ELSE UndoLoop(o.st, left - 1, Append(results, o.result), t)
                 : o \in undo_last(st, t) }

Min(a, b) == IF a < b THEN a ELSE b

\* undo_multiple: the set of outcomes [st, results]
undo_multiple(st, count, t) ==
    { [st |-> o.st,
       results |-> IF o.results = <<>> THEN <<NothingToUndo>> ELSE o.results]
      : o \in UndoLoop(st, Min(count, Len(st.stack)), <<>>, t) }

-----------------------------------------------------------------------------
(* engine/command_executor.py, engine/scaffold.py, utils/fs.py *)

\* An outcome of a call: the state afterwards and what the call returned
\* ("raised" when an exception left it).
Out(st, msg) == [st |-> st, out |-> msg]

PathDetails(path) == [path |-> StrOfPath(path)]

TrashDetails(path, trash_path) ==
    [path |-> StrOfPath(path), trash_path |-> StrOfPath(trash_path)]

\* TRASH_DIR / f"{path.name}_{path.stat().st_mtime}"
TrashPathOf(tree, path) ==
    Append(TRASH_DIR, Last(path) \o <<"_">> \o StrOfMtime(Get(tree, path).mtime))

\* a hard delete in place of the move to the trash
HardDelete(st, operation, path, t, moved) ==
    Out(log_operation([st EXCEPT !.fs = Remove(@, path, t)],
                      operation, TrashDetails(path, TrashPathOf(st.fs, path)), t),
        moved)

\* the soft delete of delete_folder / delete_file
SoftDelete(st, operation, path, t, moved) ==
    LET trash_path == TrashPathOf(st.fs, path) IN
    IF MoveOk(st.fs, path, trash_path)
    THEN Out(log_operation([st EXCEPT !.fs = Move(@, path, trash_path, t)],
                           operation, TrashDetails(path, trash_path), t),
             moved)
    ELSE Out(st, "raised")

execute_command(st, action, path, t) ==
    CASE action = "create_folder" ->
            IF MkdirOk(st.fs, path)
            THEN Out(log_operation([st EXCEPT !.fs = MkdirP(@, path, t)],
                                   "create_folder", PathDetails(path), t),
                     "Folder created")
            ELSE Out(st, "raised")
      [] action = "create_file" ->
            IF ~MkdirOk(st.fs, Front(path)) THEN Out(st, "raised")
            ELSE LET made == MkdirP(st.fs, Front(path), t) IN
                 IF ~Exists(made, path)
                 THEN Out(log_operation([st EXCEPT !.fs = Put(made, path, File(t), t)],
                                        "create_file", PathDetails(path), t),
                          "File created")
                 ELSE Out([st EXCEPT !.fs = made], "File already exists")
      [] action = "delete_folder" ->
            IF IsDir(st.fs, path)
            THEN SoftDelete(st, "delete_folder", path, t, "Folder moved to trash")
            ELSE Out(st, "Folder does not exist")
      [] action = "delete_file" ->
            IF IsFile(st.fs, path)
            THEN SoftDelete(st, "delete_file", path, t, "File moved to trash")
            ELSE Out(st, "File does not exist")
      [] action = "force_delete" ->
            IF Exists(st.fs, path)
            THEN Out(log_operation([st EXCEPT !.fs = Remove(@, path, t)],
                                   "force_delete", PathDetails(path), t),
                     "Force deleted")
            ELSE Out(st, "Path does not exist")
      [] OTHER -> Out(st, "Unknown command")

\* utils/fs.py: errors are printed, not raised
safe_create_dir(tree, path, t) ==
    IF ~Exists(tree, path) /\ MkdirOk(tree, path) THEN MkdirP(tree, path, t) ELSE tree

safe_create_file(tree, path, t) ==
    IF ~Exists(tree, path) /\ MkdirOk(tree, Front(path))
    THEN Put(MkdirP(tree, Front(path), t), path, File(t), t)
    ELSE tree

RECURSIVE BlueprintFolders(_, _, _, _)
BlueprintFolders(st, base, folders, t) ==
    IF folders = <<>> THEN st
    ELSE LET p == base \o Head(folders) IN
         BlueprintFolders(
             log_operation([st EXCEPT !.fs = safe_create_dir(@, p, t)],
                           "create_folder", PathDetails(p), t),
             base, Tail(folders), t)

RECURSIVE BlueprintFiles(_, _, _, _)
BlueprintFiles(st, base, files, t) ==
    IF files = <<>> THEN st
    ELSE LET p == base \o Head(files) IN
         BlueprintFiles(
             log_operation([st EXCEPT !.fs = safe_create_file(@, p, t)],
                           "create_file", PathDetails(p), t),
             base, Tail(files), t)

apply_blueprint(st, base, blueprint, t) ==
    LET project == log_operation([st EXCEPT !.fs = safe_create_dir(@, base, t)],
                                 "create_project",
                                 [path |-> StrOfPath(base), type |-> "folder"], t)
    IN  BlueprintFiles(BlueprintFolders(project, base, blueprint.folders, t),
                       base, blueprint.files, t)

\* the blueprints given: relative paths of folders and of files
Blueprints ==
    { [folders |-> <<>>, files |-> <<>>],
      [folders |-> <<>>, files |-> << <<NameA>> >>],
      [folders |-> << <<NameA>> >>, files |-> <<>>] }

BlueprintEntries(blueprint) == 1 + Len(blueprint.folders) + Len(blueprint.files)

\* the other callers of log_operation (git_executor.commit, dep_intelligence.add_dep)
\* and the details they log
OtherOperations ==
    { [operation |-> "git_commit",
       details |-> [message |-> "msg", cwd |-> StrOfPath(<<NameP>>)]],
      [operation |-> "install_dependency",
       details |-> [name |-> "pkg", type |-> "python", cwd |-> StrOfPath(<<>>)]] }

Actions == {"create_folder", "create_file", "delete_folder", "delete_file",
            "force_delete", "rename"}

-----------------------------------------------------------------------------
(* core/memory.py: the safety classifier (check_safety) *)

\* str.lower() on the characters the model uses
Lower(s) ==
    [i \in 1..Len(s) |->
        CASE s[i] = "F" -> "f"
          [] s[i] = "T" -> "t"
          [] s[i] = "C" -> "c"
          [] s[i] = "W" -> "w"
          [] OTHER -> s[i]]

\* s.startswith(prefix)
StartsWith(s, prefix) ==
    Len(prefix) <= Len(s) /\ SubSeq(s, 1, Len(prefix)) = prefix

PROTECTED_PATHS ==
    << <<"/">>,
       <<"C", ":", "/", "W", "i", "n", "d", "o", "w", "s">>,
       <<"C", ":", "/", "P", "r", "o", "g", "r", "a", "m", " ", "F", "i", "l", "e", "s">>,
       <<"C", ":", "/", "P", "r", "o", "g", "r", "a", "m", " ", "F", "i", "l", "e", "s", " ", "(", "x", "8", "6", ")">>,
       <<"/", "S", "y", "s", "t", "e", "m">>,
       <<"/", "L", "i", "b", "r", "a", "r", "y">>,
       <<"/", "u", "s", "r">>,
       <<"/", "b", "i", "n">>,
       <<"/", "e", "t", "c">> >>

Rule(rule_type, pattern, action, reason) ==
    [rule_type |-> rule_type, pattern |-> pattern, action |-> action, reason |-> reason]

PatDelete == <<"d", "e", "l", "e", "t", "e">>
PatFormat == <<"f", "o", "r", "m", "a", "t">>
PatRmRf == <<"r", "m", " ", "-", "r", "f">>
PatForce == <<"f", "o", "r", "c", "e">>
PatReset == <<"r", "e", "s", "e", "t">>
PatPush == <<"p", "u", "s", "h">>

\* _load_safety_rules: the rows of safety_rules after construction, in rowid order
DefaultRules ==
    [i \in 1..Len(PROTECTED_PATHS) |->
        Rule("protected_path", PROTECTED_PATHS[i], "deny", "System protected path")]
    \o << Rule("dangerous_action", PatDelete, "confirm", "Destructive operation"),
          Rule("dangerous_action", PatFormat, "confirm", "Data loss risk"),
          Rule("dangerous_action", PatRmRf, "confirm", "Recursive delete"),
          Rule("dangerous_action", PatForce, "confirm", "Force operation") >>

\* An intent is a dict: a sequence of items [key, value, quoted] in insertion
\* order (quoted: the value is a string, shown in quotes by str()).
Item(key, value) == [key |-> key, value |-> value, quoted |-> TRUE]
Flag(key, value) == [key |-> key, value |-> value, quoted |-> FALSE]

KeyIntent == <<"i", "n", "t", "e", "n", "t">>
KeyAction == <<"a", "c", "t", "i", "o", "n">>

\* intent.get(key): the value, or <<>> for None
RECURSIVE DictGet(_, _)
DictGet(intent, key) ==
    IF intent = <<>> THEN <<>>
    ELSE IF Head(intent).key = key THEN Head(intent).value
    ELSE DictGet(Tail(intent), key)

\* str(intent): {'key': 'value', 'key': True}
ReprItem(item) ==
    <<"'">> \o item.key \o <<"'", ":", " ">>
    \o (IF item.quoted THEN <<"'">> \o item.value \o <<"'">> ELSE item.value)

RECURSIVE ReprItems(_)
ReprItems(intent) ==
    IF intent = <<>> THEN <<>>
    ELSE IF Len(intent) = 1 THEN ReprItem(Head(intent))
    ELSE ReprItem(Head(intent)) \o <<",", " ">> \o ReprItems(Tail(intent))

StrOfDict(intent) == <<"{">> \o ReprItems(intent) \o <<"}">>

ReadOnlyIntents ==
    { <<"l", "i", "s", "t", "_", "p", "r", "o", "j", "e", "c", "t", "s">>, <<"s", "t", "a", "t", "u", "s">>, <<"h", "e", "l", "p">>,
      <<"e", "x", "p", "l", "a", "i", "n", "_", "f", "i", "l", "e">>, <<"c", "h", "e", "c", "k", "_", "h", "e", "a", "l", "t", "h">>,
      <<"o", "p", "e", "n", "_", "a", "p", "p">> }

\* the dict check_safety returns; the reason is a text, followed by the
\* protected path when one matched
Verdict(safe, action, level, reason, protected) ==
    [safe |-> safe, action |-> action, level |-> level,
     reason |-> [text |-> reason, path |-> protected]]

\* the last matching dangerous_action rule of the table instead of the first
RECURSIVE LastMatch(_, _, _, _)
LastMatch(rules, i, action, intent) ==
    IF i > Len(rules) THEN 0
    ELSE LET later == LastMatch(rules, i + 1, action, intent) IN
         IF later # 0 THEN later
         ELSE IF /\ rules[i].rule_type = "dangerous_action"
                 /\ \/ IsSubstr(rules[i].pattern, Lower(action))
                    \/ IsSubstr(rules[i].pattern, Lower(StrOfDict(intent)))
         THEN i
         ELSE 0

\* the first index >= i of a dangerous_action rule whose pattern occurs in the
\* action text or in the intent's representation; 0 when there is none
RECURSIVE FirstMatch(_, _, _, _)
FirstMatch(rules, i, action, intent) ==
    IF i > Len(rules) THEN 0
    ELSE IF /\ rules[i].rule_type = "dangerous_action"
            /\ \/ IsSubstr(rules[i].pattern, Lower(action))
               \/ IsSubstr(rules[i].pattern, Lower(StrOfDict(intent)))
    THEN i
    ELSE FirstMatch(rules, i + 1, action, intent)

\* the first protected path (in list order) the path starts with; 0 when none
RECURSIVE FirstProtected(_, _)
FirstProtected(i, path) ==
    IF i > Len(PROTECTED_PATHS) THEN 0
    ELSE IF StartsWith(path, PROTECTED_PATHS[i]) THEN i
    ELSE FirstProtected(i + 1, path)

\* check_safety answering for a read-only intent before it looks at the path
check_safety_read_only_first(rules, intent, action, path) ==
    LET prot == IF path # <<>> THEN FirstProtected(1, path) ELSE 0
        hit == FirstMatch(rules, 1, action, intent)
    IN  IF DictGet(intent, KeyIntent) \in ReadOnlyIntents
        THEN Verdict(TRUE, "allow", "SAFE", "", <<>>)
        ELSE IF prot # 0
        THEN Verdict(FALSE, "deny", "CRITICAL", "Protected system path: ",
                     PROTECTED_PATHS[prot])
        ELSE IF hit # 0
        THEN Verdict(rules[hit].action = "allow", rules[hit].action,
                     IF IsSubstr(PatReset, rules[hit].pattern)
                        \/ IsSubstr(PatForce, rules[hit].pattern)
                     THEN "CRITICAL" ELSE "DANGEROUS",
                     rules[hit].reason, <<>>)
        ELSE Verdict(TRUE, "allow", "NORMAL", "", <<>>)

check_safety(rules, intent, action, path) ==
    LET level == IF DictGet(intent, KeyIntent) \in ReadOnlyIntents THEN "SAFE" ELSE "NORMAL"
        prot == IF path # <<>> THEN FirstProtected(1, path) ELSE 0
        hit == FirstMatch(rules, 1, action, intent)
    IN  IF prot # 0
        THEN Verdict(FALSE, "deny", "CRITICAL", "Protected system path: ",
                     PROTECTED_PATHS[prot])
        ELSE IF hit # 0
        THEN Verdict(rules[hit].action = "allow", rules[hit].action,
                     IF IsSubstr(PatReset, rules[hit].pattern)
                        \/ IsSubstr(PatForce, rules[hit].pattern)
                     THEN "CRITICAL" ELSE "DANGEROUS",
                     rules[hit].reason, <<>>)
        ELSE Verdict(TRUE, "allow", level, "", <<>>)

\* the index of the first rule with this type and pattern; 0 when none
RECURSIVE FindRule(_, _, _, _)
FindRule(rules, i, rule_type, pattern) ==
    IF i > Len(rules) THEN 0
    ELSE IF rules[i].rule_type = rule_type /\ rules[i].pattern = pattern THEN i
    ELSE FindRule(rules, i + 1, rule_type, pattern)

add_safety_rule(rules, rule_type, pattern, action, reason) ==
    LET existing == FindRule(rules, 1, rule_type, pattern) IN
    IF existing # 0
    THEN [rules EXCEPT ![existing].action = action, ![existing].reason = reason]
    ELSE Append(rules, Rule(rule_type, pattern, action, reason))

\* the inputs given to the classifier
TxtForceDelete == <<"f", "o", "r", "c", "e", "_", "d", "e", "l", "e", "t", "e">>
TxtDeleteFile == <<"d", "e", "l", "e", "t", "e", "_", "f", "i", "l", "e">>
TxtCreateFile == <<"c", "r", "e", "a", "t", "e", "_", "f", "i", "l", "e">>
TxtForcePush == <<"F", "o", "r", "c", "e", " ", "p", "u", "s", "h">>
TxtStatus == <<"s", "t", "a", "t", "u", "s">>
TxtGitPush == <<"g", "i", "t", "_", "p", "u", "s", "h">>
TxtTrue == <<"T", "r", "u", "e">>

Intents ==
    { << Item(KeyIntent, TxtStatus) >>,
      << Item(KeyIntent, TxtCreateFile) >>,
      << Item(KeyIntent, TxtDeleteFile), Item(KeyAction, TxtDeleteFile) >>,
      << Item(KeyIntent, TxtForceDelete), Item(KeyAction, TxtForceDelete) >>,
      << Item(KeyIntent, TxtGitPush), Flag(PatForce, TxtTrue) >> }

ActionTexts == { <<>>, TxtCreateFile, TxtDeleteFile, TxtForceDelete, TxtForcePush }

PathEtcFoo == <<"/", "e", "t", "c", "/", "f", "o", "o">>

SafetyPaths ==
    { <<>>,
      PathEtcFoo,
      <<"/", "e", "t", "c">>,
      <<"C", ":", "/", "W", "i", "n", "d", "o", "w", "s", "/", "x">>,
      <<"p", "/", "a">> }

AddedRules ==
    { Rule("dangerous_action", PatForce, "allow", "Allowed"),
      Rule("dangerous_action", PatDelete, "allow", "Allowed"),
      Rule("dangerous_action", PatPush, "confirm", "Remote change"),
      Rule("workflow_action", PatDelete, "confirm", "Destructive file op") }

-----------------------------------------------------------------------------
(* core/core.py: the AgentGovernor (rate limiter) and the AutonomousAgent *)

max_actions_per_hour == 20
max_deletions_per_hour == 2
max_git_resets == 1
Hour == 3600

\* AgentGovernor.__init__: self.usage
NoUsage == [actions |-> <<>>, deletions |-> <<>>, resets |-> <<>>]

\* [t for t in self.usage[key] if now - t < 3600]
Recent(times, t) == SelectSeq(times, LAMBDA x : t - x < Hour)

\* the cleaning loop of check, over every key of usage
Cleaned(u, t) ==
    [actions |-> Recent(u.actions, t),
     deletions |-> Recent(u.deletions, t),
     resets |-> Recent(u.resets, t)]

CheckReturn(u, result) == [usage |-> u, result |-> result]

\* check letting a third deletion through (> in place of >=)
check_third_deletion(u, action_type, t) ==
    LET c == Cleaned(u, t)
        d == IF action_type = "delete" THEN [c EXCEPT !.deletions = Append(@, t)]
             ELSE IF action_type = "reset" THEN [c EXCEPT !.resets = Append(@, t)]
             ELSE c
    IN  IF action_type = "delete" /\ Len(c.deletions) > max_deletions_per_hour
        THEN CheckReturn(c, FALSE)
        ELSE IF action_type = "reset" /\ Len(c.resets) >= max_git_resets
        THEN CheckReturn(c, FALSE)
        ELSE IF Len(d.actions) >= max_actions_per_hour
        THEN CheckReturn(d, FALSE)
        ELSE CheckReturn([d EXCEPT !.actions = Append(@, t)], TRUE)

\* check that records a call in the all-actions window before it refuses it
check_records_over_ceiling(u, action_type, t) ==
    LET c == Cleaned(u, t)
        d == IF action_type = "delete" THEN [c EXCEPT !.deletions = Append(@, t)]
             ELSE IF action_type = "reset" THEN [c EXCEPT !.resets = Append(@, t)]
             ELSE c
    IN  IF action_type = "delete" /\ Len(c.deletions) >= max_deletions_per_hour
        THEN CheckReturn(c, FALSE)
        ELSE IF action_type = "reset" /\ Len(c.resets) >= max_git_resets
        THEN CheckReturn(c, FALSE)
        ELSE CheckReturn([d EXCEPT !.actions = Append(@, t)],
                      Len(d.actions) < max_actions_per_hour)

\* check that records a refused deletion or reset in its window
check_records_refused(u, action_type, t) ==
    LET c == Cleaned(u, t)
        d == IF action_type = "delete" THEN [c EXCEPT !.deletions = Append(@, t)]
             ELSE IF action_type = "reset" THEN [c EXCEPT !.resets = Append(@, t)]
             ELSE c
    IN  IF action_type = "delete" /\ Len(c.deletions) >= max_deletions_per_hour
        THEN CheckReturn(d, FALSE)
        ELSE IF action_type = "reset" /\ Len(c.resets) >= max_git_resets
        THEN CheckReturn(d, FALSE)
        ELSE IF Len(d.actions) >= max_actions_per_hour
        THEN CheckReturn(d, FALSE)
        ELSE CheckReturn([d EXCEPT !.actions = Append(@, t)], TRUE)

\* check that takes back the category entry of a call the ceiling refuses
check_forgets_over_ceiling(u, action_type, t) ==
    LET c == Cleaned(u, t)
        d == IF action_type = "delete" THEN [c EXCEPT !.deletions = Append(@, t)]
             ELSE IF action_type = "reset" THEN [c EXCEPT !.resets = Append(@, t)]
             ELSE c
    IN  IF action_type = "delete" /\ Len(c.deletions) >= max_deletions_per_hour
        THEN CheckReturn(c, FALSE)
        ELSE IF action_type = "reset" /\ Len(c.resets) >= max_git_resets
        THEN CheckReturn(c, FALSE)
        ELSE IF Len(d.actions) >= max_actions_per_hour
        THEN CheckReturn(c, FALSE)
        ELSE CheckReturn([d EXCEPT !.actions = Append(@, t)], TRUE)

\* AgentGovernor.check(action_type) called at time t
check(u, action_type, t) ==
    LET c == Cleaned(u, t)
        d == IF action_type = "delete" THEN [c EXCEPT !.deletions = Append(@, t)]
             ELSE IF action_type = "reset" THEN [c EXCEPT !.resets = Append(@, t)]
             ELSE c
    IN  IF action_type = "delete" /\ Len(c.deletions) >= max_deletions_per_hour
        THEN CheckReturn(c, FALSE)
        ELSE IF action_type = "reset" /\ Len(c.resets) >= max_git_resets
        THEN CheckReturn(c, FALSE)
        ELSE IF Len(d.actions) >= max_actions_per_hour
        THEN CheckReturn(d, FALSE)
        ELSE CheckReturn([d EXCEPT !.actions = Append(@, t)], TRUE)

\* the time that passes between two calls
Advances == {1799, 1800}

\* the state execute_plan works on
AgentState == [usage |-> usage, clock |-> clock, routed |-> routed, events |-> events,
               checks |-> <<>>]

KeyName == <<"n", "a", "m", "e">>
KeyPath == <<"p", "a", "t", "h">>
TxtExecutePipeline == <<"e", "x", "e", "c", "u", "t", "e", "_", "p", "i", "p", "e", "l", "i", "n", "e">>
TxtGitReset == <<"g", "i", "t", "_", "r", "e", "s", "e", "t">>
TxtBuild == <<"b", "u", "i", "l", "d">>

\* An action of a trigger is a string: JSON text (json: it starts with "{";
\* parsed: what json.loads gives, <<>> standing for an empty dict and for a
\* text json.loads rejects) or the name of a workflow.
JsonAction(parsed) == [json |-> TRUE, parsed |-> parsed, name |-> <<>>]
NameAction(name) == [json |-> FALSE, parsed |-> <<>>, name |-> name]

\* execute_plan: "Determine intent"
PlanIntent(action_def) ==
    IF action_def.json THEN action_def.parsed
    ELSE << Item(KeyIntent, TxtExecutePipeline), Item(KeyName, action_def.name) >>

\* execute_plan: the category handed to the governor
ActionType(intent) ==
    IF IsSubstr(PatReset, StrOfDict(intent)) THEN "reset"
    ELSE IF IsSubstr(PatDelete, StrOfDict(intent)) THEN "delete"
    ELSE "normal"

\* what route() returns, as far as execute_plan looks at it: whether the text
\* contains "error"
RouteResults == {"ok", "error"}

\* the time a call of route() may take
RouteTimes == {0, 1800}

CheckCall(intent, action_type, result) ==
    [intent |-> intent, action_type |-> action_type, result |-> result]

AgentEvent(event_type, intent) == [event_type |-> event_type, operation |-> intent]

\* execute_plan routing an action although the governor refused it
RECURSIVE execute_plan_ignores_governor(_, _)
execute_plan_ignores_governor(st, actions) ==
    IF actions = <<>> THEN {st}
    ELSE
        LET intent == PlanIntent(Head(actions))
            action_type == ActionType(intent)
            o == check(st.usage, action_type, st.clock)
            seen == [st EXCEPT !.usage = o.usage,
                               !.checks = Append(@, CheckCall(intent, action_type, o.result))]
        IN  IF intent = <<>>
            THEN execute_plan_ignores_governor(st, Tail(actions))
            ELSE UNION {
                     execute_plan_ignores_governor(
                         [seen EXCEPT !.routed = Append(@, intent),
                                      !.clock = @ + d,
                                      !.events = Append(@, AgentEvent(
                                          IF ~o.result THEN "governor_block"
                                          ELSE IF r = "error" THEN "agent_failure"
                                          ELSE "agent_success", intent))],
                         Tail(actions))
                     : r \in RouteResults, d \in {e \in RouteTimes : st.clock + e <= MaxClock} }

\* AutonomousAgent.execute_plan(actions): the states it can end in
RECURSIVE execute_plan(_, _)
execute_plan(st, actions) ==
    IF actions = <<>> THEN {st}
    ELSE
        LET intent == PlanIntent(Head(actions))
            action_type == ActionType(intent)
            o == check(st.usage, action_type, st.clock)
            seen == [st EXCEPT !.usage = o.usage,
                               !.checks = Append(@, CheckCall(intent, action_type, o.result))]
        IN  IF intent = <<>>
            THEN execute_plan(st, Tail(actions))
            ELSE IF ~o.result
            THEN execute_plan(
                     [seen EXCEPT !.events = Append(@, AgentEvent("governor_block", intent))],
                     Tail(actions))
            ELSE UNION {
                     execute_plan(
                         [seen EXCEPT !.routed = Append(@, intent),
                                      !.clock = @ + d,
                                      !.events = Append(@, AgentEvent(
                                          IF r = "error" THEN "agent_failure"
                                          ELSE "agent_success", intent))],
                         Tail(actions))
                     : r \in RouteResults, d \in {e \in RouteTimes : st.clock + e <= MaxClock} }

\* the actions of the triggers
PlanActions ==
    { JsonAction(<< Item(KeyIntent, TxtDeleteFile), Item(KeyPath, NameA) >>),
      JsonAction(<< Item(KeyIntent, TxtGitReset) >>),
      JsonAction(<<>>),
      NameAction(TxtBuild) }

Plans == {<<a>> : a \in PlanActions} \cup {<<a, b>> : a \in PlanActions, b \in PlanActions}

\* the categories execute_plan passes to check
ActionTypes == {"normal", "delete", "reset"}

-----------------------------------------------------------------------------
(* daemon/service.py: the StateMachine and the dispatch of the daemon loop *)

confidence_threshold == 75

KeyConfidence == <<"c", "o", "n", "f", "i", "d", "e", "n", "c", "e">>
KeyRaw == <<"r", "a", "w">>
KeyResponse == <<"r", "e", "s", "p", "o", "n", "s", "e">>
KeyForce == <<"f", "o", "r", "c", "e">>
TxtConfirm == <<"c", "o", "n", "f", "i", "r", "m">>
TxtCancel == <<"c", "a", "n", "c", "e", "l">>
TxtCritical == <<"c", "r", "i", "t", "i", "c", "a", "l">>
TxtConfirmCritical == <<"c", "o", "n", "f", "i", "r", "m", " ", "c", "r", "i", "t", "i", "c", "a", "l">>
TxtUnknown == <<"u", "n", "k", "n", "o", "w", "n">>
TxtCreateProject == <<"c", "r", "e", "a", "t", "e", "_", "p", "r", "o", "j", "e", "c", "t">>
TxtDemo == <<"d", "e", "m", "o">>
Txt09 == <<"0", ".", "9">>
Txt05 == <<"0", ".", "5">>

\* key in intent
HasKey(intent, key) == \E i \in 1..Len(intent) : intent[i].key = key

\* intent[key] = value
DictSet(intent, key, value) ==
    IF HasKey(intent, key)
    THEN [i \in 1..Len(intent) |->
             IF intent[i].key = key THEN Item(key, value) ELSE intent[i]]
    ELSE Append(intent, Item(key, value))

DigitVal(c) == IF c = "0" THEN 0 ELSE CHOOSE d \in 1..9 : Digit[d] = c

\* the value of a float written d.d or d.dd, in hundredths
Hundredths(c) ==
    DigitVal(c[1]) * 100 + DigitVal(c[3]) * 10 + (IF Len(c) > 3 THEN DigitVal(c[4]) ELSE 0)

\* intent.get("confidence", default), in hundredths
Confidence(intent, default) ==
    IF HasKey(intent, KeyConfidence) THEN Hundredths(DictGet(intent, KeyConfidence))
    ELSE default

\* SESSION["pending_action"]: None, or a dict with the keys the code gives it
\* (safety_check.action = "none": no such key; missing = <<>>: no such key)
None_ == [set |-> FALSE]
Pending(intent, safety_check, reason, missing) ==
    [set |-> TRUE, intent |-> intent, safety_check |-> safety_check,
     reason |-> reason, missing |-> missing]
NoSafetyCheck == Verdict(TRUE, "none", "none", "", <<>>)

\* the state machine, the session and the logs handle_intent works on
Machine ==
    [state |-> state, previous_state |-> previous_state, pending |-> pending_action,
     events |-> events, feedback |-> feedback, said |-> <<>>]

\* StateMachine.transition(new_state)
transition(m, new_state) ==
    [m EXCEPT !.previous_state = m.state,
              !.state = new_state,
              !.events = Append(@, [event_type |-> "state_change",
                                    operation |-> <<m.state, new_state>>])]

\* speak(text): the text, and the reason it carries if any
speak(m, text, reason) == [m EXCEPT !.said = Append(@, [text |-> text, reason |-> reason])]
NoReason == [text |-> "", path |-> <<>>]

Handled(m, intent, safety, returned) ==
    [m |-> m, intent |-> intent, safety |-> safety, returned |-> returned]

\* handle_intent, state listening, after the safety check, executing a
\* low-confidence intent at once
AfterSafetyTrusting(m, intent, safety) ==
    IF safety.action = "deny"
    THEN Handled(speak(transition(m, "idle"), "Cannot proceed", safety.reason),
                 intent, safety, <<>>)
    ELSE IF safety.action = "confirm"
    THEN Handled(speak(transition([m EXCEPT !.pending = Pending(intent, safety, "", <<>>)],
                                  "confirming"),
                       IF safety.level = "CRITICAL" THEN "CRITICAL WARNING" ELSE "Warning",
                       safety.reason),
                 intent, safety, <<>>)
    ELSE Handled(speak(transition(m, "executing"), "Executing now", NoReason),
                 intent, safety, intent)

\* handle_intent, state listening, after the safety check, keeping a denied
\* intent as pending
AfterSafetyKeepingDenied(m, intent, safety) ==
    IF safety.action = "deny" \/ safety.action = "confirm"
    THEN Handled(speak(transition([m EXCEPT !.pending = Pending(intent, safety, "", <<>>)],
                                  "confirming"),
                       IF safety.level = "CRITICAL" THEN "CRITICAL WARNING" ELSE "Warning",
                       safety.reason),
                 intent, safety, <<>>)
    ELSE IF Confidence(intent, 0) < confidence_threshold
    THEN Handled(speak(transition([m EXCEPT !.pending =
                                        Pending(intent, NoSafetyCheck, "Low confidence", <<>>)],
                                  "confirming"),
                       "I'm not sure I understood", NoReason),
                 intent, safety, <<>>)
    ELSE Handled(speak(transition(m, "executing"), "Executing now", NoReason),
                 intent, safety, intent)

\* handle_intent, state listening, after the safety check (the state is
\* thinking)
AfterSafety(m, intent, safety) ==
    IF safety.action = "deny"
    THEN Handled(speak(transition(m, "idle"), "Cannot proceed", safety.reason),
                 intent, safety, <<>>)
    ELSE IF safety.action = "confirm"
    THEN Handled(speak(transition([m EXCEPT !.pending = Pending(intent, safety, "", <<>>)],
                                  "confirming"),
                       IF safety.level = "CRITICAL" THEN "CRITICAL WARNING" ELSE "Warning",
                       safety.reason),
                 intent, safety, <<>>)
    ELSE IF Confidence(intent, 0) < confidence_threshold
    THEN Handled(speak(transition([m EXCEPT !.pending =
                                        Pending(intent, NoSafetyCheck, "Low confidence", <<>>)],
                                  "confirming"),
                       "I'm not sure I understood", NoReason),
                 intent, safety, <<>>)
    ELSE Handled(speak(transition(m, "executing"), "Executing now", NoReason),
                 intent, safety, intent)

\* handle_intent, state listening
Listening(m, intent, rules) ==
    IF intent = <<>>
    THEN Handled(speak(transition(m, "idle"), "I didn't catch that", NoReason),
                 intent, NoSafetyCheck, <<>>)
    ELSE AfterSafety(speak(transition(m, "thinking"), "Let me think about that", NoReason),
                     intent,
                     check_safety(rules, intent, DictGet(intent, KeyAction),
                                  DictGet(intent, KeyPath)))

\* handle_intent, state confirming
Confirming(m, intent) ==
    LET pending == m.pending
        response == DictGet(intent, KeyResponse)
        required_response ==
            IF pending.set /\ pending.safety_check.level = "CRITICAL"
            THEN "confirm critical" ELSE "confirm"
        cleared == [m EXCEPT !.pending = None_]
    IN  IF /\ ~HasKey(intent, KeyIntent) /\ HasKey(intent, KeyRaw)
           /\ pending.set /\ pending.missing # <<>>
        THEN Handled(speak(transition(cleared, "executing"), "Got it, executing now", NoReason),
                     intent, NoSafetyCheck,
                     DictSet(pending.intent, pending.missing[1], DictGet(intent, KeyRaw)))
        ELSE IF \/ response = TxtConfirm
                \/ /\ required_response = "confirm critical"
                   /\ IsSubstr(TxtCritical, Lower(DictGet(intent, KeyRaw)))
        THEN IF pending.set
             THEN Handled(speak(transition(cleared, "executing"),
                                "Confirmed, executing now", NoReason),
                          intent, NoSafetyCheck, pending.intent)
             ELSE Handled(speak(transition(m, "idle"), "No pending action to confirm", NoReason),
                          intent, NoSafetyCheck, <<>>)
        ELSE LET said == speak(transition(cleared, "idle"), "Action cancelled", NoReason)
                 \* pending = SESSION.get("pending_action"), read after it was reset
                 reread == said.pending
             IN  Handled(IF reread.set
                         THEN [said EXCEPT !.feedback =
                                   Append(@, [intent |-> reread.intent, kind |-> "cancel"])]
                         ELSE said,
                         intent, NoSafetyCheck, <<>>)

\* handle_intent, state executing, passing the intent on instead
ExecutingAnyway(m, intent) ==
    Handled(speak(m, "Executing now", NoReason), intent, NoSafetyCheck, intent)

\* handle_intent, state executing
Executing(m, intent) ==
    Handled(speak(transition(m, "idle"), "I was busy executing. Please repeat your command.",
                  NoReason),
            intent, NoSafetyCheck, <<>>)

\* StateMachine.handle_intent(intent) in the states idle, listening,
\* confirming and executing
handle_intent(m, intent, rules) ==
    IF m.state = "idle"
    THEN Handled(speak(transition(m, "listening"), "I'm listening", NoReason),
                 intent, NoSafetyCheck, <<>>)
    ELSE IF m.state = "listening"
    THEN Listening(m, intent, rules)
    ELSE IF m.state = "executing"
    THEN Executing(m, intent)
    ELSE Confirming(m, intent)

\* what route() gives the daemon loop: a text without or with "error" in it, a
\* dict asking for a missing name, or an exception
RouteOutcomes == {"ok", "error", "ask", "raise"}

\* the intents the extractor hands over while the machine listens
HeardIntents ==
    { <<>>,
      << Item(KeyIntent, TxtCreateFile), Item(KeyPath, NameA), Flag(KeyConfidence, Txt09) >>,
      << Item(KeyIntent, TxtCreateFile), Item(KeyPath, NameA), Flag(KeyConfidence, Txt05) >>,
      << Item(KeyIntent, TxtCreateProject) >>,
      << Item(KeyIntent, TxtDeleteFile), Item(KeyAction, TxtDeleteFile), Item(KeyPath, NameA),
         Flag(KeyConfidence, Txt09) >>,
      << Item(KeyIntent, TxtGitPush), Flag(KeyForce, TxtTrue), Flag(KeyConfidence, Txt09) >>,
      << Item(KeyIntent, TxtCreateFile), Item(KeyPath, PathEtcFoo), Flag(KeyConfidence, Txt09) >>,
      << Item(KeyIntent, TxtCreateFile), Item(KeyPath, PathEtcFoo), Flag(KeyConfidence, Txt05) >> }

\* what the extractor hands over for an answer to a confirmation prompt
HeardResponses ==
    { << Item(KeyResponse, TxtConfirm), Flag(KeyConfidence, Txt09) >>,
      << Item(KeyResponse, TxtCancel), Flag(KeyConfidence, Txt09) >>,
      << Item(KeyIntent, TxtUnknown), Flag(KeyConfidence, Txt05) >>,
      << Item(KeyIntent, TxtUnknown), Item(KeyRaw, TxtConfirmCritical) >>,
      << Item(KeyRaw, TxtDemo) >> }

-----------------------------------------------------------------------------
(* core/memory.py: the memory table, workflows and the events table *)

TxtWorkflow == <<"w", "o", "r", "k", "f", "l", "o", "w">>
TxtAny == <<"a", "n", "y">>
TxtGlobal == <<"g", "l", "o", "b", "a", "l">>
TxtFlask == <<"f", "l", "a", "s", "k">>
TxtCreateFlaskProject ==
    <<"c", "r", "e", "a", "t", "e", "_", "f", "l", "a", "s", "k", "_", "p", "r", "o", "j", "e", "c", "t">>
TxtInstallDependencies ==
    <<"i", "n", "s", "t", "a", "l", "l", "_", "d", "e", "p", "e", "n", "d", "e", "n", "c", "i", "e", "s">>
TxtAddDocker == <<"a", "d", "d", "_", "d", "o", "c", "k", "e", "r">>
TxtUserRole == <<"u", "s", "e", "r", "_", "r", "o", "l", "e">>
Underscore == <<"_">>

search_limit == 50

\* a trigger dict: its intent and its tech (<<>>: the dict has no tech key)
Trigger(intent, tech) == [intent |-> intent, tech |-> tech]

\* the dict remember_workflow stores (the confidence in hundredths)
WorkflowData(trigger, actions, scope) ==
    [kind |-> "workflow", trigger |-> trigger, actions |-> actions, scope |-> scope,
     confidence |-> 90, enabled |-> TRUE]

\* a value that is no workflow: a plain text
TextValue == [kind |-> "text"]

\* a row of the memory table (key is UNIQUE, access_count defaults to 0)
Row(key, value, type, updated_at) ==
    [key |-> key, value |-> value, type |-> type, tags |-> "",
     access_count |-> 0, updated_at |-> updated_at]

\* datetime.now() of the next write: later than every row's stamp
RECURSIVE Stamp(_)
Stamp(rows) ==
    IF rows = <<>> THEN 1
    ELSE LET rest == Stamp(Tail(rows)) IN
         IF Head(rows).updated_at >= rest THEN Head(rows).updated_at + 1 ELSE rest

\* MemoryManager.remember: insert, or on a conflicting key update the value
\* and the stamp and count one more access (the type stays)
remember(rows, key, value, memory_type) ==
    IF \E i \in 1..Len(rows) : rows[i].key = key
    THEN [i \in 1..Len(rows) |->
             IF rows[i].key = key
             THEN [rows[i] EXCEPT !.value = value, !.updated_at = Stamp(rows),
                                  !.access_count = @ + 1]
             ELSE rows[i]]
    ELSE Append(rows, Row(key, value, memory_type, Stamp(rows)))

\* ORDER BY access_count DESC, updated_at DESC
Before(a, b) ==
    \/ a.access_count > b.access_count
    \/ a.access_count = b.access_count /\ a.updated_at > b.updated_at

RECURSIVE OrderRows(_)
OrderRows(S) ==
    IF S = {} THEN <<>>
    ELSE LET first == CHOOSE a \in S : \A b \in S \ {a} : Before(a, b)
         IN  <<first>> \o OrderRows(S \ {first})

\* WHERE value LIKE '%%' OR tags LIKE '%%' AND type = ?  (AND binds tighter
\* than OR; '%%' matches every text that is not NULL)
Selected(row, memory_type) ==
    \/ row.value.kind # "null"
    \/ row.tags # "NULL" /\ row.type = memory_type

\* search("", memory_type, limit)
search(rows, memory_type, limit) ==
    LET hits == OrderRows({ rows[i] : i \in { j \in 1..Len(rows) : Selected(rows[j], memory_type) } })
    IN  SubSeq(hits, 1, Min(limit, Len(hits)))

\* f"workflow_{trigger['intent']}_{trigger.get('tech', 'any')}_{scope}"
WorkflowKey(trigger, scope) ==
    TxtWorkflow \o Underscore \o trigger.intent \o Underscore
    \o (IF trigger.tech = <<>> THEN TxtAny ELSE trigger.tech) \o Underscore \o scope

\* a row of the events table
MemoryEvent(event_type, intent, success) ==
    [event_type |-> event_type, intent |-> intent, success |-> success]

\* remember_workflow: the table and the events table after it
remember_workflow(mem, trigger, actions, scope) ==
    [rows |-> remember(mem.rows, WorkflowKey(trigger, scope),
                       WorkflowData(trigger, actions, scope), "workflow"),
     events |-> Append(mem.events, MemoryEvent("workflow_learned", <<>>, TRUE))]

\* matched.sort(key=confidence, reverse=True): stable
RECURSIVE SortByConfidence(_)
SortByConfidence(s) ==
    IF s = <<>> THEN <<>>
    ELSE LET i == CHOOSE k \in 1..Len(s) :
                      /\ \A j \in 1..Len(s) : s[j].confidence <= s[k].confidence
                      /\ \A j \in 1..(k - 1) : s[j].confidence < s[k].confidence
         IN  <<s[i]>> \o SortByConfidence(SubSeq(s, 1, i - 1) \o SubSeq(s, i + 1, Len(s)))

\* the loop of get_workflows_for_trigger over the rows found; it raises at
\* the first value that has no trigger
RECURSIVE MatchLoop(_, _, _, _, _)
MatchLoop(found_rows, matched, intent_name, tech, scope) ==
    IF found_rows = <<>> THEN [raised |-> FALSE, result |-> SortByConfidence(matched)]
    ELSE LET data == Head(found_rows).value IN
         IF data.kind # "workflow" THEN [raised |-> TRUE, result |-> <<>>]
         ELSE MatchLoop(Tail(found_rows),
                        IF /\ data.trigger.intent = intent_name
                           /\ (tech = <<>> \/ data.trigger.tech = tech)
                           /\ data.scope = scope
                           /\ data.enabled
                        THEN Append(matched, data) ELSE matched,
                        intent_name, tech, scope)

\* get_workflows_for_trigger(intent_name, tech, scope) (tech <<>>: None)
get_workflows_for_trigger(rows, intent_name, tech, scope) ==
    MatchLoop(search(rows, "workflow", search_limit), <<>>, intent_name, tech, scope)

recent_events == 20

\* json.dumps(intent) of a dict of texts: {"key": "value", "key": "value"}
JsonItem(item) ==
    <<"\"">> \o item.key \o <<"\"", ":", " ">>
    \o (IF item.quoted THEN <<"\"">> \o item.value \o <<"\"">> ELSE item.value)

RECURSIVE JsonItems(_)
JsonItems(intent) ==
    IF intent = <<>> THEN <<>>
    ELSE IF Len(intent) = 1 THEN JsonItem(Head(intent))
    ELSE JsonItem(Head(intent)) \o <<",", " ">> \o JsonItems(Tail(intent))

JsonOfDict(intent) == <<"{">> \o JsonItems(intent) \o <<"}">>

\* MemoryManager.log_event: the intent column holds json.dumps(intent), or ""
memory_log_event(evs, event_type, intent, success) ==
    Append(evs, MemoryEvent(event_type,
                            IF intent = <<>> THEN <<>> ELSE JsonOfDict(intent), success))

\* get_recent_events(n): ORDER BY created_at DESC LIMIT n, the newest first
RECURSIVE Reverse(_)
Reverse(s) == IF s = <<>> THEN <<>> ELSE Append(Reverse(Tail(s)), Head(s))

get_recent_events(evs, n) == SubSeq(Reverse(evs), 1, Min(n, Len(evs)))

\* the keys f"{trigger['intent']}_{follow['intent']}" of the adjacent pairs of
\* successful events, in the order the loop meets them
RECURSIVE PairKeys(_)
PairKeys(recent) ==
    IF Len(recent) < 2 THEN <<>>
    ELSE (IF recent[1].success /\ recent[2].success
          THEN << recent[1].intent \o Underscore \o recent[2].intent >>
          ELSE <<>>)
         \o PairKeys(Tail(recent))

Count(keys, key) == Cardinality({ i \in 1..Len(keys) : keys[i] = key })

\* seq.split("_", 1): the text before the first underscore and the text after
RECURSIVE SplitFirst(_, _)
SplitFirst(s, before) ==
    IF s = <<>> THEN <<before>>
    ELSE IF Head(s) = "_" THEN <<before, Tail(s)>>
    ELSE SplitFirst(Tail(s), Append(before, Head(s)))

NoPattern == [found |-> FALSE]

\* detect_repeated_pattern(min_occurrences): the dict's keys keep the order of
\* their first insertion
detect_repeated_pattern(evs, min_occurrences) ==
    LET recent == get_recent_events(evs, recent_events)
        keys == PairKeys(recent)
        reaching == { i \in 1..Len(keys) : Count(keys, keys[i]) >= min_occurrences }
    IN  IF reaching = {} THEN NoPattern
        ELSE LET first == CHOOSE i \in reaching : \A j \in reaching : i <= j
                 parts == SplitFirst(keys[first], <<>>)
             IN  [found |-> TRUE,
                  trigger |-> [intent |-> parts[1]],
                  actions |-> << parts[2] >>,
                  confidence |-> [count |-> Count(keys, keys[first]), of |-> Len(recent)]]

-----------------------------------------------------------------------------
(* engine/intent_router.py: workflows applied after an intent *)

KeyContext == <<"c", "o", "n", "t", "e", "x", "t">>
KeySource == <<"s", "o", "u", "r", "c", "e">>
KeyScope == <<"s", "c", "o", "p", "e">>
TxtRepeatLastWorkflow ==
    <<"r", "e", "p", "e", "a", "t", "_", "l", "a", "s", "t", "_", "w", "o", "r", "k", "f", "l", "o", "w">>
TxtPerform == <<"p", "e", "r", "f", "o", "r", "m", "_">>
TxtCreate_ == <<"c", "r", "e", "a", "t", "e", "_">>
Txt_Project == <<"_", "p", "r", "o", "j", "e", "c", "t">>
TxtDeleteTemp == <<"d", "e", "l", "e", "t", "e", "_", "t", "e", "m", "p">>
TxtLint == <<"l", "i", "n", "t">>

\* the intents route() treats as project creation
ProjectIntents ==
    { TxtCreate_ \o tech \o Txt_Project :
        tech \in { <<"f", "l", "u", "t", "t", "e", "r">>, TxtFlask, <<"r", "e", "a", "c", "t">>,
                   <<"n", "o", "d", "e">>, <<"w", "e", "b">>, <<"d", "a", "t", "a">> } }

\* what the workflow functions work on: SESSION["last_workflow"], the calls of
\* route() (with the verdict on the action and whether a prompt preceded),
\* the prompts spoken, the results gathered, the workflows applied, and the
\* deepest nesting of execute_workflow calls
NoFlow ==
    [last_workflow |-> None_, routed |-> <<>>, prompts |-> <<>>, results |-> <<>>,
     applied |-> <<>>, declined |-> <<>>, nesting |-> 0]

\* {"path": ..., "scope": "global"}
Context(path) == << Item(KeyPath, path), Item(KeyScope, TxtGlobal) >>

\* confirm_workflow: TRUE at once when the preference auto_apply_workflows is
\* set, else the answer to a spoken prompt
confirm_workflow(w, actions, env) ==
    IF env.auto_apply_workflows THEN [w |-> w, yes |-> TRUE]
    ELSE [w |-> [w EXCEPT !.prompts = Append(@, actions)], yes |-> env.answer]

\* the synthetic intent of an action
SubIntent(action, context) ==
    << Item(KeyIntent, IF IsSubstr(Underscore, action) THEN action ELSE TxtPerform \o action),
       Flag(KeyContext, StrOfDict(context)),
       Item(KeySource, TxtWorkflow) >>

Flowed(w, raised) == [w |-> w, raised |-> raised]

\* execute_workflow(actions, context) at a nesting depth, and route() of an
\* intent (the branches that reach the workflow functions: the blueprint of
\* a project intent is taken as applied); the interpreter raises
\* RecursionError past its limit
RECURSIVE execute_workflow(_, _, _, _, _)
RECURSIVE route_action(_, _, _, _, _)
RECURSIVE after_intent_execution(_, _, _, _)
route_action(w, sub_intent, safety, depth, env) ==
    LET intent_type == DictGet(sub_intent, KeyIntent)
        called == [w EXCEPT !.routed = Append(@, [intent |-> intent_type,
                                                   verdict |-> safety.action,
                                                   prompts |-> Len(w.prompts),
                                                   depth |-> depth])]
    IN  IF intent_type = TxtRepeatLastWorkflow
        THEN IF ~called.last_workflow.set THEN Flowed(called, FALSE)
             ELSE IF ~env.last_project.set
             THEN Flowed(called, TRUE)   \* AttributeError: None has no get
             ELSE execute_workflow(called, called.last_workflow.actions,
                                   Context(env.last_project.path), depth + 1, env)
        ELSE IF intent_type \in ProjectIntents
        THEN after_intent_execution(called, sub_intent, Context(<<>>), env)
        ELSE Flowed(called, FALSE)

Result(w, kind, action) ==
    [w EXCEPT !.results = Append(@, [kind |-> kind, action |-> action])]

\* execute_workflow once route() of the first action has returned or raised
Routed(o, actions, context, depth, env) ==
    IF o.raised THEN o
    ELSE execute_workflow(Result(o.w, "routed", Head(actions)), Tail(actions),
                          context, depth, env)

\* execute_workflow once the prompt for the first action was answered
Prompted(asked, safety, actions, context, depth, env) ==
    IF ~asked.yes
    THEN execute_workflow(Result(asked.w, "skipped", Head(actions)), Tail(actions),
                          context, depth, env)
    ELSE Routed(route_action(asked.w, SubIntent(Head(actions), context), safety, depth, env),
                actions, context, depth, env)

\* execute_workflow once the first action is classified
Classified(w, safety, actions, context, depth, env) ==
    IF safety.action = "confirm"
    THEN Prompted(confirm_workflow(w, << Head(actions) >>, env),
                  safety, actions, context, depth, env)
    ELSE IF safety.action = "deny"
    THEN execute_workflow(Result(w, "blocked", Head(actions)), Tail(actions),
                          context, depth, env)
    ELSE Routed(route_action(w, SubIntent(Head(actions), context), safety, depth, env),
                actions, context, depth, env)

execute_workflow(w, actions, context, depth, env) ==
    IF depth > env.recursion_limit THEN Flowed(w, TRUE)
    ELSE IF actions = <<>> THEN Flowed(w, FALSE)
    ELSE Classified([w EXCEPT !.nesting = IF depth > @ THEN depth ELSE @],
                    check_safety(env.rules, SubIntent(Head(actions), context), Head(actions),
                                 DictGet(context, KeyPath)),
                    actions, context, depth, env)

\* intent["intent"].split("_")[1]
SecondPiece(name) == SplitFirst(SplitFirst(name, <<>>)[2], <<>>)[1]

\* the tech of create_<tech>_project; <<>> (None) for other intents
TechOf(name) ==
    IF IsSubstr(TxtCreate_, name) /\ IsSubstr(Txt_Project, name)
    THEN SecondPiece(name) ELSE <<>>

\* after_intent_execution once execute_workflow has returned or raised
Applied(o, wf) ==
    IF o.raised THEN o
    ELSE Flowed([o.w EXCEPT !.applied = Append(@, wf.actions),
                            !.last_workflow = [set |-> TRUE, actions |-> wf.actions]],
                FALSE)

\* after_intent_execution once confirm_workflow has answered (the automatic
\* dependencies after a declined workflow are left out)
Suggested(asked, wf, context, env) ==
    IF asked.yes THEN Applied(execute_workflow(asked.w, wf.actions, context, 1, env), wf)
    ELSE Flowed([asked.w EXCEPT !.declined = Append(@, wf.actions)], FALSE)

\* after_intent_execution once the workflows are looked up
LookedUp(w, workflows, intent, context, env) ==
    IF workflows.raised THEN Flowed(w, TRUE)
    ELSE IF workflows.result = <<>> THEN Flowed(w, FALSE)
    ELSE Suggested(confirm_workflow(w, workflows.result[1].actions, env),
                   workflows.result[1],
                   DictSet(context, KeyIntent, DictGet(intent, KeyIntent)), env)

\* after_intent_execution(intent, context)
after_intent_execution(w, intent, context, env) ==
    IF DictGet(intent, KeySource) = TxtWorkflow THEN Flowed(w, FALSE)
    ELSE LookedUp(w,
                  get_workflows_for_trigger(env.rows, DictGet(intent, KeyIntent),
                                            TechOf(DictGet(intent, KeyIntent)),
                                            DictGet(context, KeyScope)),
                  intent, context, env)

-----------------------------------------------------------------------------
(* daemon/service.py: the daemon loop, step by step *)

improvement_period == 10

\* SESSION.get("last_project", {}).get("path", ""): the key is there from the
\* start with the value None, and None has no get
SessionPath == IF last_project.set THEN last_project.path ELSE <<>>

\* what the workflow functions read: the memory table, the safety rules, the
\* session, the preference auto_apply_workflows and the answer to a prompt
Env(auto, answer) ==
    [rows |-> memory_rows, rules |-> safety_rules, last_project |-> last_project,
     auto_apply_workflows |-> auto, answer |-> answer, recursion_limit |-> RecursionLimit]

\* after_intent_execution called `times` times in a row on one intent; the
\* calls made, and whether one raised
RECURSIVE Hooked(_, _, _, _)
Again(o, intent, times, calls) ==
    IF o.raised THEN [w |-> o.w, raised |-> TRUE, calls |-> calls + 1]
    ELSE Hooked(o.w, intent, times - 1, calls + 1)

Hooked(w, intent, times, calls) ==
    IF times = 0 THEN [w |-> w, raised |-> FALSE, calls |-> calls]
    ELSE Again(after_intent_execution(w, intent, Context(SessionPath), Env(TRUE, FALSE)),
               intent, times, calls)

\* the workflow hook in one round of the loop: skipped when there is no
\* intent to execute and when "error" is in the
\* result; in the idle/listening branch called before the result is looked
\* at and again after it was logged, in the confirming branch once
AfterRoute(intent, was, outcome) ==
    IF intent = <<>> \/ outcome \in {"raise", "error"} THEN [w |-> flow.w, raised |-> FALSE, calls |-> 0]
    ELSE IF ~last_project.set THEN [w |-> flow.w, raised |-> TRUE, calls |-> 0]
    ELSE Hooked([NoFlow EXCEPT !.last_workflow = flow.w.last_workflow], intent,
                IF was = "confirming" \/ outcome = "ask" THEN 1 ELSE 2, 0)

\* the Self-Improvement trigger at the top of every iteration
tune(t) ==
    IF /\ t.actions_count > 0
       /\ t.actions_count % improvement_period = 0
       /\ t.last_improvement_count # t.actions_count
    THEN [t EXCEPT !.tuner_runs = @ + 1, !.last_improvement_count = t.actions_count]
    ELSE t

Tuner ==
    [actions_count |-> actions_count, last_improvement_count |-> last_improvement_count,
     tuner_runs |-> tuner_runs]

Tune ==
    /\ actions_count' = tune(Tuner).actions_count
    /\ last_improvement_count' = tune(Tuner).last_improvement_count
    /\ tuner_runs' = tune(Tuner).tuner_runs

\* silence in an iteration: listening and confirming time out
timeout(m) ==
    IF m.state = "listening" THEN transition(m, "idle")
    ELSE IF m.state = "confirming"
    THEN speak(transition([m EXCEPT !.pending = None_], "idle"),
               "Action cancelled due to silence", NoReason)
    ELSE m

\* memory.log_event(event_type, intent=...)
Logged(m, event_type, operation) ==
    [m EXCEPT !.events = Append(@, [event_type |-> event_type, operation |-> operation])]

\* the daemon loop after route() without the transition back to idle
DispatchStaying(h, was, outcome, a) ==
    IF h.returned = <<>> THEN h.m
    ELSE Logged(speak(h.m, "result", NoReason), "action_completed", h.returned)

\* the daemon loop after route(): the rest of the iteration in the
\* idle/listening branch and in the confirming branch, given what the
\* workflow hook did
Dispatch(h, was, outcome, a) ==
    IF h.returned = <<>> THEN h.m
    ELSE IF outcome = "raise"
    THEN transition(Logged(h.m, "system_error", h.returned), "idle")
    ELSE IF was = "confirming"
    THEN transition(IF a.raised
                    THEN Logged(Logged(speak(h.m, "result", NoReason), "action_completed",
                                       h.returned), "system_error", h.returned)
                    ELSE Logged(speak(h.m, "result", NoReason), "action_completed",
                                h.returned),
                    "idle")
    ELSE IF a.raised /\ a.calls <= 1
    THEN transition(Logged(h.m, "system_error", h.returned), "idle")
    ELSE IF outcome = "ask"
    THEN speak(transition([h.m EXCEPT !.pending =
                               Pending(h.returned, NoSafetyCheck, "", <<KeyName>>)],
                          "confirming"),
               "ask", NoReason)
    ELSE transition(IF a.raised
                    THEN Logged(Logged(speak(h.m, "result", NoReason), "action_completed",
                                       h.returned), "system_error", h.returned)
                    ELSE Logged(speak(h.m, "result", NoReason), "action_completed",
                                h.returned),
                    "idle")

-----------------------------------------------------------------------------
(* The state machine *)

RootDir == Put(Put(Dir(0), <<NameLogs>>, Dir(0), 0), TRASH_DIR, Dir(0), 0)

NoCall == [call |-> "init", arg |-> <<>>, out |-> <<>>]

NoVerdict ==
    [intent |-> <<>>, action |-> <<>>, path |-> <<>>,
     result |-> Verdict(TRUE, "none", "none", "", <<>>)]

NoHandled ==
    [heard |-> FALSE, state |-> "none", intent |-> <<>>, safety |-> NoSafetyCheck,
     said |-> <<>>, returned |-> <<>>, left |-> "none"]

NoCheck == [action_type |-> "none", result |-> TRUE]

InitCore ==
    /\ usage = NoUsage
    /\ clock = 0
    /\ gov = NoCheck
    /\ routed = <<>>
    /\ checks = <<>>
    /\ state = "idle"
    /\ previous_state = "none"
    /\ pending_action = None_
    /\ feedback = <<>>
    /\ dispatched = <<>>
    /\ handled = NoHandled

NoFound ==
    [called |-> FALSE, intent_name |-> <<>>, tech |-> <<>>, scope |-> <<>>,
     raised |-> FALSE, result |-> <<>>]

NoDetected == [called |-> FALSE, min_occurrences |-> 0, out |-> NoPattern]

NoFlowCall ==
    [name |-> "none", intent |-> <<>>, path |-> <<>>, auto_apply_workflows |-> TRUE,
     answer |-> FALSE, raised |-> FALSE]

NoHooks == [intent |-> <<>>, was |-> "none", outcome |-> "none", calls |-> 0]

AtTop == [at |-> "top", was |-> "none"]

\* the memory table and the session as the process finds them
InitExt(stores, projects) ==
    /\ memory_rows \in stores
    /\ looked_up = NoFound
    /\ detected = NoDetected
    /\ flow = [w |-> NoFlow, call |-> NoFlowCall]
    /\ hooks = NoHooks
    /\ last_project \in projects
    /\ pc = AtTop
    /\ actions_count = 0
    /\ last_improvement_count = -1
    /\ tuner_runs = 0
    /\ project_status = "none"
    /\ file_mtime = 1
    /\ last_mtime = 0
    /\ reader = [who |-> "loop", at |-> "test", seen |-> 0]
    /\ detections = 0
    /\ consumptions = 0

InitBase ==
    /\ fs = RootDir
    /\ stack = <<>>
    /\ undo_log = <<>>
    /\ events = <<>>
    /\ now = 1
    /\ nlog = 0
    /\ ret = NoCall
    /\ safety_rules = DefaultRules
    /\ verdict = NoVerdict
    /\ InitCore

Init == InitBase /\ InitExt({<<>>}, {None_})

Become(st) ==
    /\ fs' = st.fs
    /\ stack' = st.stack
    /\ undo_log' = st.undo_log
    /\ events' = st.events

\* what execute_command returns when it has logged an operation
LoggedReplies == {"Folder created", "File created", "Folder moved to trash",
                  "File moved to trash", "Force deleted"}

\* time passes
Tick ==
    /\ now < MaxTime
    /\ now' = now + 1
    /\ ret' = [call |-> "tick", arg |-> <<>>, out |-> <<>>]
    /\ UNCHANGED <<fs, stack, undo_log, events, nlog, safetyVars, coreVars>>

ExecuteCommand ==
    \E action \in Actions, path \in Paths :
        LET o == execute_command(State, action, path, now) IN
        /\ nlog < MaxLog
        /\ Become(o.st)
        /\ nlog' = nlog + (IF o.out \in LoggedReplies THEN 1 ELSE 0)
        /\ ret' = [call |-> "execute_command", arg |-> <<action, path>>, out |-> o.out,
                   was |-> Get(fs, path).kind]
        /\ UNCHANGED <<now, safetyVars, coreVars>>

ApplyBlueprint ==
    \E blueprint \in Blueprints :
        LET base == <<NameP>> IN
        /\ nlog + BlueprintEntries(blueprint) <= MaxLog
        /\ Become(apply_blueprint(State, base, blueprint, now))
        /\ nlog' = nlog + BlueprintEntries(blueprint)
        /\ ret' = [call |-> "apply_blueprint", arg |-> <<base, blueprint>>, out |-> <<>>,
                   was |-> Get(fs, base).kind]
        /\ UNCHANGED <<now, safetyVars, coreVars>>

LogOperation ==
    \E op \in OtherOperations :
        /\ nlog < MaxLog
        /\ Become(log_operation(State, op.operation, op.details, now))
        /\ nlog' = nlog + 1
        /\ ret' = [call |-> "log_operation", arg |-> <<op.operation>>, out |-> <<>>]
        /\ UNCHANGED <<now, safetyVars, coreVars>>

UndoLast ==
    \E o \in undo_last(State, now) :
        /\ Len(events) < MaxEvents
        /\ Become(o.st)
        /\ ret' = [call |-> "undo_last", arg |-> <<>>, out |-> o.result]
        /\ UNCHANGED <<now, nlog, safetyVars, coreVars>>

UndoMultiple ==
    \E count \in 0..MaxCount : \E o \in undo_multiple(State, count, now) :
        /\ Len(events) + count <= MaxEvents
        /\ Become(o.st)
        /\ ret' = [call |-> "undo_multiple", arg |-> <<count>>, out |-> o.results]
        /\ UNCHANGED <<now, nlog, safetyVars, coreVars>>

Next ==
    \/ Tick
    \/ ExecuteCommand
    \/ ApplyBlueprint
    \/ LogOperation
    \/ UndoLast
    \/ UndoMultiple

\* the undo manager and the executors
Spec == Init /\ [][Next]_vars

\* A ledger loaded from logs/undo_stack.json (load_stack): n entries logged by
\* earlier runs, oldest first.
LoadedStack(n) ==
    [i \in 1..n |->
        [timestamp |-> i - n,
         operation |-> IF i % 2 = 0 THEN "create_folder" ELSE "git_commit",
         details |-> IF i % 2 = 0 THEN PathDetails(<<NameP>>)
                     ELSE [message |-> "msg", cwd |-> StrOfPath(<<NameP>>)],
         undo_action |-> IF i % 2 = 0 THEN "delete_folder" ELSE "git_reset_commit"]]

InitLedger ==
    /\ fs = RootDir
    /\ \E n \in (StackLimit - 1)..StackLimit : stack = LoadedStack(n)
    /\ undo_log = stack
    /\ events = <<>>
    /\ now = 1
    /\ nlog = 0
    /\ ret = NoCall
    /\ safety_rules = DefaultRules
    /\ verdict = NoVerdict
    /\ InitCore
    /\ InitExt({<<>>}, {None_})

NextLedger ==
    \/ Tick
    \/ LogOperation
    \/ UndoLast
    \/ UndoMultiple

\* the undo manager's own calls, started with a nearly full ledger
SpecLedger == InitLedger /\ [][NextLedger]_vars

CheckSafety ==
    \E intent \in Intents, action \in ActionTexts, path \in SafetyPaths :
        /\ verdict' = [intent |-> intent, action |-> action, path |-> path,
                       result |-> check_safety(safety_rules, intent, action, path)]
        /\ UNCHANGED <<safety_rules, undoVars, coreVars>>

AddSafetyRule ==
    \E r \in AddedRules :
        /\ safety_rules' = add_safety_rule(safety_rules, r.rule_type, r.pattern,
                                           r.action, r.reason)
        /\ UNCHANGED <<verdict, undoVars, coreVars>>

NextSafety ==
    \/ CheckSafety
    \/ AddSafetyRule

\* the safety classifier and its rule table
SpecSafety == Init /\ [][NextSafety]_vars

\* the tables the daemon may find at start: the workflows taught earlier
StoreOf(workflows) ==
    LET RECURSIVE Fill(_, _)
        Fill(mem, left) ==
            IF left = <<>> THEN mem
            ELSE Fill(remember_workflow(mem, Head(left).trigger, Head(left).actions, TxtGlobal),
                      Tail(left))
    IN  Fill([rows |-> <<>>, events |-> <<>>], workflows).rows

Taught(intent, actions) == [trigger |-> Trigger(intent, <<>>), actions |-> actions]

FlowStores ==
    { StoreOf(<<>>),
      StoreOf(<< Taught(TxtCreateFile, <<TxtAddDocker, TxtDeleteTemp>>) >>),
      StoreOf(<< Taught(TxtCreateFile, <<TxtLint, TxtCreateFlaskProject>>) >>),
      StoreOf(<< Taught(TxtCreateFile, <<TxtRepeatLastWorkflow>>) >>),
      StoreOf(<< Taught(TxtCreateFile, <<TxtAddDocker>>),
                 Taught(TxtGitPush, <<TxtRepeatLastWorkflow>>) >>),
      StoreOf(<< Taught(TxtCreateFile, <<TxtGitPush>>),
                 Taught(TxtGitPush, <<TxtAddDocker>>) >>) }

\* SESSION["last_project"]: None, or what remember_project left there
FlowProjects == { None_, [set |-> TRUE, path |-> NameA] }

\* the tables the daemon loop is run over
LoopStores == { StoreOf(<<>>), StoreOf(<< Taught(TxtCreateFile, <<TxtAddDocker>>) >>) }

\* the daemon with the memory table and the session it may run with
InitSession == InitBase /\ InitExt(LoopStores, FlowProjects)

\* time passes
Wait ==
    \E d \in Advances :
        /\ clock + d <= MaxClock
        /\ clock' = clock + d
        /\ UNCHANGED <<usage, gov, routed, checks, machineVars, extVars, undoVars, safetyVars>>

Check ==
    \E action_type \in ActionTypes :
        LET o == check(usage, action_type, clock) IN
        /\ usage' = o.usage
        /\ gov' = [action_type |-> action_type, result |-> o.result]
        /\ UNCHANGED <<clock, routed, checks, machineVars, extVars, undoVars, safetyVars>>

\* one round of the daemon loop with a command heard: handle_intent and the
\* dispatch of what it returns
HandleIntent ==
    \E intent \in (IF state = "confirming" THEN HeardResponses ELSE HeardIntents) :
    \E outcome \in RouteOutcomes :
        \E h \in { handle_intent(Machine, intent, safety_rules) } :
        \E a \in { AfterRoute(h.returned, state, outcome) } :
        \E m \in { Dispatch(h, state, outcome, a) } :
            /\ pc.at = "top"
            /\ Len(m.events) <= MaxMachineEvents
            /\ (h.returned = <<>>) => outcome = "ok"
            /\ Tune
            /\ flow' = IF h.returned = <<>> THEN flow ELSE [flow EXCEPT !.w = a.w]
            /\ hooks' = IF h.returned = <<>> THEN hooks
                        ELSE [intent |-> h.returned, was |-> state, outcome |-> outcome,
                              calls |-> a.calls]
            /\ UNCHANGED <<pc, last_project, memoryVars, watchVars>>
            /\ state' = m.state
            /\ previous_state' = m.previous_state
            /\ pending_action' = m.pending
            /\ events' = m.events
            /\ feedback' = m.feedback
            /\ dispatched' = IF h.returned = <<>> THEN dispatched
                             ELSE Append(dispatched, h.returned)
            /\ handled' = [heard |-> TRUE, state |-> state, intent |-> intent, safety |-> h.safety,
                           said |-> h.m.said, returned |-> h.returned, left |-> h.m.state]
            /\ UNCHANGED <<fs, stack, undo_log, now, nlog, ret, safetyVars, agentVars>>

\* one round of the daemon loop with nothing heard
Silence ==
    /\ pc.at = "top"
    /\ state \in {"listening", "confirming"}
    /\ Len(events) + 1 <= MaxMachineEvents
    /\ Tune
    /\ UNCHANGED <<pc, flowVars, memoryVars, watchVars>>
    /\ LET m == timeout(Machine)
       IN  /\ state' = m.state
           /\ previous_state' = m.previous_state
           /\ pending_action' = m.pending
           /\ events' = m.events
    /\ handled' = [NoHandled EXCEPT !.state = state, !.left = "idle"]
    /\ UNCHANGED <<feedback, dispatched>>
    /\ UNCHANGED <<fs, stack, undo_log, now, nlog, ret, safetyVars, agentVars>>

NextMachine ==
    \/ HandleIntent
    \/ Silence

\* the conversational state machine
SpecMachine == InitSession /\ [][NextMachine]_vars

\* tick(): the plan decided from the triggers is handed to execute_plan
ExecutePlanOf(plans) ==
    \E plan \in plans : \E o \in execute_plan(AgentState, plan) :
        /\ Len(events) + Len(plan) <= MaxAgentEvents
        /\ usage' = o.usage
        /\ clock' = o.clock
        /\ routed' = o.routed
        /\ events' = o.events
        /\ checks' = o.checks
        /\ gov' = IF o.checks = <<>> THEN gov
                  ELSE [action_type |-> o.checks[Len(o.checks)].action_type,
                        result |-> o.checks[Len(o.checks)].result]
        /\ UNCHANGED <<fs, stack, undo_log, now, nlog, ret, safetyVars, machineVars, extVars>>

ExecutePlan == ExecutePlanOf(Plans)

NextAgent ==
    \/ Wait
    \/ ExecutePlan

\* the agent's plans under the rate limiter
SpecAgent == Init /\ [][NextAgent]_vars

NextGovernor ==
    \/ Wait
    \/ Check

\* the rate limiter on its own
SpecGovernor == Init /\ [][NextGovernor]_vars

\* the workflows a user teaches and the records of other types in the table
Triggers ==
    { Trigger(TxtCreateFlaskProject, TxtFlask), Trigger(TxtCreateFlaskProject, <<>>),
      Trigger(TxtGitPush, <<>>) }
ActionLists == { <<TxtAddDocker>>, <<TxtInstallDependencies>> }
TriggerTechs == { <<>>, TxtFlask }

\* memory.remember(key, text, "fact"), as initialize_memory does
Remember ==
    /\ Stamp(memory_rows) <= MaxWrites
    /\ memory_rows' = remember(memory_rows, TxtUserRole, TextValue, "fact")
    /\ UNCHANGED <<looked_up, detected>>
    /\ UNCHANGED <<undoVars, safetyVars, agentVars, machineVars, flowVars, loopVars, watchVars>>

RememberWorkflow ==
    \E trigger \in Triggers : \E actions \in ActionLists :
        LET o == remember_workflow([rows |-> memory_rows, events |-> events],
                                   trigger, actions, TxtGlobal)
        IN  /\ Stamp(memory_rows) <= MaxWrites
            /\ memory_rows' = o.rows
            /\ events' = o.events
            /\ UNCHANGED <<looked_up, detected>>
            /\ UNCHANGED <<fs, stack, undo_log, now, nlog, ret>>
            /\ UNCHANGED <<safetyVars, agentVars, machineVars, flowVars, loopVars, watchVars>>

GetWorkflowsForTrigger ==
    \E intent_name \in { t.intent : t \in Triggers } : \E tech \in TriggerTechs :
        LET o == get_workflows_for_trigger(memory_rows, intent_name, tech, TxtGlobal) IN
        /\ looked_up' = [called |-> TRUE, intent_name |-> intent_name, tech |-> tech,
                     scope |-> TxtGlobal,
                     raised |-> o.raised, result |-> o.result]
        /\ UNCHANGED <<memory_rows, detected>>
        /\ UNCHANGED <<undoVars, safetyVars, agentVars, machineVars, flowVars, loopVars,
                       watchVars>>

NextStore ==
    \/ Remember
    \/ RememberWorkflow
    \/ GetWorkflowsForTrigger

\* the memory table and the workflows in it
SpecStore == Init /\ [][NextStore]_vars

\* the intents whose completion the daemon logs
LoggedIntents ==
    { << Item(KeyIntent, TxtCreateFlaskProject) >>, << Item(KeyIntent, TxtInstallDependencies) >> }

\* memory.log_event("action_completed", intent=..., success=...)
LogEvent ==
    \E intent \in LoggedIntents : \E success \in BOOLEAN :
        /\ Len(events) < MaxMemoryEvents
        /\ events' = memory_log_event(events, "action_completed", intent, success)
        /\ UNCHANGED <<memory_rows, looked_up, detected>>
        /\ UNCHANGED <<fs, stack, undo_log, now, nlog, ret>>
        /\ UNCHANGED <<safetyVars, agentVars, machineVars, flowVars, loopVars, watchVars>>

DetectRepeatedPattern ==
    \E min_occurrences \in 1..MaxOccurrences :
        /\ detected' = [called |-> TRUE, min_occurrences |-> min_occurrences,
                        out |-> detect_repeated_pattern(events, min_occurrences)]
        /\ UNCHANGED <<memory_rows, looked_up>>
        /\ UNCHANGED <<undoVars, safetyVars, agentVars, machineVars, flowVars, loopVars,
                       watchVars>>

NextEvents ==
    \/ LogEvent
    \/ DetectRepeatedPattern

\* the events table and the patterns detected in it
SpecEvents == Init /\ [][NextEvents]_vars

FlowIntents ==
    { << Item(KeyIntent, TxtCreateFile), Item(KeyPath, NameA) >>,
      << Item(KeyIntent, TxtGitPush) >>,
      SubIntent(TxtGitPush, Context(<<>>)) }

FlowPaths == { <<>>, PathEtcFoo }

\* the hook after a successful intent: after_intent_execution(intent, context)
AfterIntentExecution ==
    \E intent \in FlowIntents : \E path \in FlowPaths : \E auto, answer \in BOOLEAN :
        LET o == after_intent_execution([NoFlow EXCEPT !.last_workflow = flow.w.last_workflow],
                                        intent, Context(path), Env(auto, answer))
        IN  /\ flow' = [w |-> o.w,
                        call |-> [name |-> "after_intent_execution", intent |-> intent,
                                  path |-> path, auto_apply_workflows |-> auto,
                                  answer |-> answer, raised |-> o.raised]]
            /\ UNCHANGED <<hooks, last_project, memoryVars>>
            /\ UNCHANGED <<undoVars, safetyVars, agentVars, machineVars, loopVars, watchVars>>

\* route() of the spoken intent repeat_last_workflow
RepeatLastWorkflow ==
    \E auto, answer \in BOOLEAN :
        LET intent == << Item(KeyIntent, TxtRepeatLastWorkflow) >>
            path == SessionPath
            o == route_action([NoFlow EXCEPT !.last_workflow = flow.w.last_workflow],
                              intent, Verdict(TRUE, "allow", "NORMAL", "", <<>>), 0,
                              Env(auto, answer))
        IN  /\ flow' = [w |-> o.w,
                        call |-> [name |-> "route", intent |-> intent,
                                  path |-> path, auto_apply_workflows |-> auto,
                                  answer |-> answer, raised |-> o.raised]]
            /\ UNCHANGED <<hooks, last_project, memoryVars>>
            /\ UNCHANGED <<undoVars, safetyVars, agentVars, machineVars, loopVars, watchVars>>

NextFlow ==
    \/ AfterIntentExecution
    \/ RepeatLastWorkflow

InitFlow ==
    /\ InitBase
    /\ InitExt(FlowStores, FlowProjects)

\* workflows applied after intents, over the tables the daemon may start with
SpecFlow == InitFlow /\ [][NextFlow]_vars

\* an iteration of the daemon loop up to the call of route(): the tuner
\* trigger, a command heard, handle_intent; the iteration pauses inside
\* route() when handle_intent returned an intent
HearOf(intents, responses, cycle, limit) ==
    \E intent \in (IF state = "confirming" THEN responses ELSE intents) :
        \E h \in { handle_intent(Machine, intent, safety_rules) } :
        /\ pc.at = "top"
        /\ state \in {"idle", "listening", "confirming"}
        /\ state = "idle" => Len(events) + cycle <= limit
        /\ Tune
        /\ state' = h.m.state
        /\ previous_state' = h.m.previous_state
        /\ pending_action' = h.m.pending
        /\ events' = h.m.events
        /\ feedback' = h.m.feedback
        /\ dispatched' = IF h.returned = <<>> THEN dispatched
                         ELSE Append(dispatched, h.returned)
        /\ pc' = IF h.returned = <<>> THEN AtTop ELSE [at |-> "route", was |-> state]
        /\ handled' = [heard |-> TRUE, state |-> state, intent |-> intent, safety |-> h.safety,
                       said |-> h.m.said, returned |-> h.returned, left |-> h.m.state]
        /\ UNCHANGED <<flowVars, memoryVars, watchVars>>
        /\ UNCHANGED <<fs, stack, undo_log, now, nlog, ret, safetyVars, agentVars>>

\* the rest of the iteration once route() has returned or raised
RouteReturnsOf(outcomes) ==
    /\ pc.at = "route"
    /\ \E outcome \in outcomes :
        \E a \in { AfterRoute(dispatched[Len(dispatched)], pc.was, outcome) } :
        \E m \in { Dispatch([m |-> Machine, returned |-> dispatched[Len(dispatched)]],
                             pc.was, outcome, a) } :
            /\ state' = m.state
            /\ previous_state' = m.previous_state
            /\ pending_action' = m.pending
            /\ events' = m.events
            /\ feedback' = m.feedback
            /\ pc' = AtTop
            /\ flow' = [flow EXCEPT !.w = a.w]
            /\ hooks' = [intent |-> dispatched[Len(dispatched)], was |-> pc.was,
                         outcome |-> outcome,
                         calls |-> a.calls]
            /\ UNCHANGED <<dispatched, handled, last_project>>
            /\ UNCHANGED <<actions_count, last_improvement_count, tuner_runs>>
            /\ UNCHANGED <<memoryVars, watchVars>>
            /\ UNCHANGED <<fs, stack, undo_log, now, nlog, ret, safetyVars, agentVars>>

Hear == HearOf(HeardIntents, HeardResponses, 10, MaxLoopEvents)

RouteReturns == RouteReturnsOf(RouteOutcomes)

\* handle_intent handed an intent while route() runs (the loop itself does
\* not listen then)
Arrives ==
    \E intent \in HeardIntents \ {<<>>} :
        \E h \in { handle_intent(Machine, intent, safety_rules) } :
        /\ pc.at = "route"
        /\ state = "executing"
        /\ state' = h.m.state
        /\ previous_state' = h.m.previous_state
        /\ pending_action' = h.m.pending
        /\ events' = h.m.events
        /\ feedback' = h.m.feedback
        /\ dispatched' = IF h.returned = <<>> THEN dispatched
                         ELSE Append(dispatched, h.returned)
        /\ handled' = [heard |-> TRUE, state |-> state, intent |-> intent, safety |-> h.safety,
                       said |-> h.m.said, returned |-> h.returned, left |-> h.m.state]
        /\ UNCHANGED <<flowVars, loopVars, memoryVars, watchVars>>
        /\ UNCHANGED <<fs, stack, undo_log, now, nlog, ret, safetyVars, agentVars>>

NextLoop ==
    \/ Hear
    \/ Silence
    \/ Arrives
    \/ RouteReturns

\* the daemon loop, an iteration pausing while route() runs
SpecLoop == InitSession /\ [][NextLoop]_vars

\* the daemon before any workflow was taught
InitUntaught == InitBase /\ InitExt({ StoreOf(<<>>) }, FlowProjects)

\* the loop under the assumption that listen() and route() return
SpecLoopFair ==
    InitUntaught /\ [][NextLoop]_vars /\ WF_vars(Hear \/ Silence) /\ WF_vars(RouteReturns)

\* a command the extractor is unsure of, and its confirmation
UnsureIntents == { << Item(KeyIntent, TxtCreateFile), Item(KeyPath, NameA), Flag(KeyConfidence, Txt05) >> }
Confirmations == { << Item(KeyResponse, TxtConfirm), Flag(KeyConfidence, Txt09) >> }

Command == HearOf(UnsureIntents, Confirmations, 7, MaxTunerEvents)

Completes == RouteReturnsOf({"ok", "raise"})

NextTuner ==
    \/ Command
    \/ Completes

\* the loop over many confirmed commands
SpecTuner == InitSession /\ [][NextTuner]_vars

-----------------------------------------------------------------------------
(* daemon/service.py: the ProjectWatcher thread and the readers of its flag *)

\* ProjectWatcher._loop, one pass: the newest mtime under the project, the
\* flag set when it grew
WatcherLoop ==
    /\ project_status' = IF last_mtime > 0 /\ file_mtime > last_mtime
                         THEN "changed" ELSE project_status
    /\ detections' = IF last_mtime > 0 /\ file_mtime > last_mtime
                     THEN detections + 1 ELSE detections
    /\ last_mtime' = file_mtime
    /\ UNCHANGED <<file_mtime, reader, consumptions>>
    /\ UNCHANGED <<undoVars, safetyVars, agentVars, machineVars, memoryVars, flowVars, loopVars>>

\* a file under the project is written
Touch ==
    /\ file_mtime < MaxMtime
    /\ file_mtime' = file_mtime + 1
    /\ UNCHANGED <<project_status, last_mtime, reader, detections, consumptions>>
    /\ UNCHANGED <<undoVars, safetyVars, agentVars, machineVars, memoryVars, flowVars, loopVars>>

\* the main thread's readers of the flag: AutonomousAgent.observe and the
\* daemon loop
Readers == {"observe", "loop"}

\* if SESSION.get("project_status") == "changed": the reader that finds the
\* flag set has seen every change flagged so far
ReadFlag ==
    \E who \in Readers :
        /\ reader.at = "test"
        /\ reader' = IF project_status = "changed"
                     THEN [who |-> who, at |-> "clear", seen |-> detections]
                     ELSE [reader EXCEPT !.who = who]
        /\ UNCHANGED <<project_status, file_mtime, last_mtime, detections, consumptions>>
        /\ UNCHANGED <<undoVars, safetyVars, agentVars, machineVars, memoryVars, flowVars,
                       loopVars>>

\* SESSION["project_status"] = None
ClearFlag ==
    /\ reader.at = "clear"
    /\ project_status' = "none"
    /\ consumptions' = consumptions + 1
    /\ reader' = [reader EXCEPT !.at = "test"]
    /\ UNCHANGED <<file_mtime, last_mtime, detections>>
    /\ UNCHANGED <<undoVars, safetyVars, agentVars, machineVars, memoryVars, flowVars, loopVars>>

NextWatch ==
    \/ Touch
    \/ WatcherLoop
    \/ ReadFlag
    \/ ClearFlag

\* the watcher thread beside the main thread
SpecWatch == Init /\ [][NextWatch]_vars

-----------------------------------------------------------------------------
(* engine/undo.py: log_operation and undo_last, one write of the file at a time *)

\* log_operation up to its first save_stack: the entry appended and written
log_operation_appended(st, operation, details, t) ==
    save_stack([st EXCEPT !.stack = Append(@, NewEntry(operation, details, t))])

\* log_operation after it: "Keep only last 50 operations"
log_operation_truncated(st) ==
    IF Len(st.stack) > StackLimit
    THEN save_stack([st EXCEPT !.stack = Newest(@, StackLimit)])
    ELSE st

\* undo_last up to its first save_stack: the entry popped
undo_last_popped(st) == save_stack([st EXCEPT !.stack = Front(@)])

\* undo_last after it, for the entry it holds: the set of outcomes
undo_last_finished(st, entry, t) ==
    { IF ~o.raised
      THEN [st |-> log_event([st EXCEPT !.fs = o.fs], "undo_executed", entry.operation),
            result |-> Undone(o.msg)]
      ELSE [st |-> log_event(save_stack([st EXCEPT !.fs = o.fs, !.stack = Append(@, entry)]),
                             "undo_failed", entry.operation),
            result |-> UndoFailed]
      : o \in _execute_undo(st.fs, entry, t) }

\* where the callers of the undo manager are: the entry a running undo_last
\* holds, and whether a running log_operation has yet to truncate
NoWriters == [call |-> "ledger", popped |-> <<>>, appended |-> FALSE, step |-> "none"]
Writers == IF ret.call = "ledger" THEN ret ELSE NoWriters

PopEntry ==
    /\ Writers.popped = <<>>
    /\ stack # <<>>
    /\ Become(undo_last_popped(State))
    /\ ret' = [Writers EXCEPT !.popped = <<Last(stack)>>, !.step = "pop"]
    /\ UNCHANGED <<now, nlog, safetyVars, coreVars>>

FinishUndo ==
    /\ Writers.popped # <<>>
    /\ Len(events) < MaxEvents
    /\ \E o \in undo_last_finished(State, Writers.popped[1], now) :
        /\ Become(o.st)
        /\ ret' = [Writers EXCEPT !.popped = <<>>,
                                  !.step = IF o.result = UndoFailed THEN "push" ELSE "done"]
    /\ UNCHANGED <<now, nlog, safetyVars, coreVars>>

AppendEntry ==
    \E op \in OtherOperations :
        /\ ~Writers.appended
        /\ nlog < MaxLog
        /\ Become(log_operation_appended(State, op.operation, op.details, now))
        /\ nlog' = nlog + 1
        /\ ret' = [Writers EXCEPT !.appended = TRUE, !.step = "append"]
        /\ UNCHANGED <<now, safetyVars, coreVars>>

TruncateLedger ==
    /\ Writers.appended
    /\ Become(log_operation_truncated(State))
    /\ ret' = [Writers EXCEPT !.appended = FALSE, !.step = "truncate"]
    /\ UNCHANGED <<now, nlog, safetyVars, coreVars>>

NextSteps ==
    \/ Tick
    \/ PopEntry
    \/ FinishUndo
    \/ AppendEntry
    \/ TruncateLedger

\* two callers of the undo manager with no lock between them, on a ledger
\* loaded from the file
SpecSteps == InitLedger /\ [][NextSteps]_vars

-----------------------------------------------------------------------------
(* The trash of earlier runs *)

\* The tree a run can start from: file a, last written at 0, and in the
\* trash the entry of a file of the same name that was deleted from folder p
\* by an earlier run (last written at 1).  The trash is never emptied.
TrashedEarlier == NameA \o <<"_">> \o StrOfMtime(1)
UsedTree ==
    Put(Put(RootDir, <<NameA>>, File(0), 0),
        Append(TRASH_DIR, TrashedEarlier), File(1), 1)

InitTrash ==
    /\ fs \in { Put(RootDir, <<NameA>>, File(0), 0), UsedTree }
    /\ stack = <<>>
    /\ undo_log = <<>>
    /\ events = <<>>
    /\ now = 1
    /\ nlog = 0
    /\ ret = NoCall
    /\ safety_rules = DefaultRules
    /\ verdict = NoVerdict
    /\ InitCore
    /\ InitExt({<<>>}, {None_})

NextTrash ==
    \/ Tick
    \/ ExecuteCommand
    \/ UndoLast

\* the executor and the undo manager on a tree that earlier runs have used
SpecTrash == InitTrash /\ [][NextTrash]_vars


-----------------------------------------------------------------------------
(* daemon/service.py: the daemon loop's exception handlers and its exits *)

\* except Exception: memory.log_event("system_error") and get_error_fix are
\* outside the inner try, so an exception of theirs leaves run(); speak and
\* transition("idle") are inside it.  store_ok: the events table can be
\* written when the handler runs.
on_exception(m, store_ok) ==
    IF store_ok
    THEN [m |-> transition(speak(Logged(m, "system_error", <<>>),
                                 "An error occurred", NoReason), "idle"),
          left |-> FALSE]
    ELSE [m |-> m, left |-> TRUE]

\* the loop has left `while True`: by break, or by an exception out of run()
Stopped == [at |-> "stopped", was |-> "none"]
Crashed == [at |-> "crashed", was |-> "none"]

Becomes(m) ==
    /\ state' = m.state
    /\ previous_state' = m.previous_state
    /\ pending_action' = m.pending
    /\ events' = m.events
    /\ feedback' = m.feedback

\* listen(), memory.log_event("voice_command") or
\* extract_intent_with_memory() raises before handle_intent is called
CycleFails ==
    \E store_ok \in BOOLEAN :
        \E o \in { on_exception(Machine, store_ok) } :
        /\ pc.at = "top"
        /\ state \in {"idle", "listening", "confirming"}
        /\ Len(events) + 2 <= MaxLoopEvents
        /\ Becomes(o.m)
        /\ pc' = IF o.left THEN Crashed ELSE AtTop
        /\ ret' = [call |-> "except", arg |-> <<state, store_ok>>, out |-> <<>>]
        /\ UNCHANGED <<dispatched, handled, flowVars, memoryVars, watchVars>>
        /\ UNCHANGED <<actions_count, last_improvement_count, tuner_runs>>
        /\ UNCHANGED <<fs, stack, undo_log, now, nlog, safetyVars, agentVars>>

\* route() returns "__STOP__" in the idle/listening branch: the workflow
\* hook is called once, then the loop logs system_stop and breaks
Stop ==
    /\ pc.at = "route"
    /\ pc.was # "confirming"
    /\ \E store_ok \in BOOLEAN :
        \E a \in { AfterRoute(dispatched[Len(dispatched)], pc.was, "ask") } :
        \E o \in { on_exception(Machine, store_ok) } :
            /\ IF a.raised
               THEN /\ Becomes(o.m)
                    /\ pc' = IF o.left THEN Crashed ELSE AtTop
               ELSE /\ Becomes(Logged(speak(Machine, "Stopping VAL", NoReason),
                                      "system_stop", <<>>))
                    /\ pc' = Stopped
            /\ flow' = [flow EXCEPT !.w = a.w]
            /\ ret' = [call |-> "stop", arg |-> <<state, store_ok>>, out |-> <<>>]
            /\ UNCHANGED <<dispatched, handled, hooks, last_project, memoryVars, watchVars>>
            /\ UNCHANGED <<actions_count, last_improvement_count, tuner_runs>>
            /\ UNCHANGED <<fs, stack, undo_log, now, nlog, safetyVars, agentVars>>

\* except KeyboardInterrupt: speak, log system_stop_manual, break
Interrupt ==
    /\ pc.at \in {"top", "route"}
    /\ Becomes(Logged(speak(Machine, "Stopping", NoReason), "system_stop_manual", <<>>))
    /\ pc' = Stopped
    /\ ret' = [call |-> "interrupt", arg |-> <<state>>, out |-> <<>>]
    /\ UNCHANGED <<dispatched, handled, flowVars, memoryVars, watchVars>>
    /\ UNCHANGED <<actions_count, last_improvement_count, tuner_runs>>
    /\ UNCHANGED <<fs, stack, undo_log, now, nlog, safetyVars, agentVars>>

NextFaults ==
    \/ Hear
    \/ Silence
    \/ RouteReturns
    \/ CycleFails
    \/ Stop
    \/ Interrupt

\* the daemon loop with its failures and its exits
SpecFaults == InitSession /\ [][NextFaults]_vars


-----------------------------------------------------------------------------
(* ai/intent_extractor.py and daemon/service.py: intents flagged ambiguous *)

KeyAmbiguous == <<"a", "m", "b", "i", "g", "u", "o", "u", "s">>
Txt06 == <<"0", ".", "6">>

\* the confidence below which the thinking branch asks for a clarification
clarify_below == 70

\* what the extractor hands over with the ambiguous flag: the rule for
\* "create project" (confidence 0.6), and an answer of the language model
\* to a "create ..." command that names no technology (its own confidence)
VagueIntents ==
    { <<>>,
      << Item(KeyIntent, TxtCreateProject), Flag(KeyAmbiguous, TxtTrue),
         Flag(KeyConfidence, Txt06) >>,
      << Item(KeyIntent, TxtCreateFile), Item(KeyPath, NameA), Flag(KeyConfidence, Txt09),
         Flag(KeyAmbiguous, TxtTrue) >> }

\* conf < 0.7 or intent.get("ambiguous", False), conf = intent.get("confidence", 1.0)
Vague(intent) ==
    \/ Confidence(intent, 100) < clarify_below
    \/ DictGet(intent, KeyAmbiguous) = TxtTrue

HearVague == HearOf(VagueIntents, HeardResponses, 5, MaxLoopEvents)

NextVague ==
    \/ HearVague
    \/ Silence
    \/ RouteReturns

\* the daemon loop hearing commands the extractor flags as ambiguous
SpecVague == InitSession /\ [][NextVague]_vars


-----------------------------------------------------------------------------
(* core/self_improver.py: tune_confidence, and the threshold of the gate *)

\* the most events tune_confidence is given in the model
MaxRecent == 3

\* the limits of the tuned threshold, in hundredths
conf_floor == 60
conf_ceiling == 95

\* the confidence_threshold rows the preferences table may hold at start:
\* what initialize_memory.py stores, and what earlier runs tuned it to
StoredThresholds == {conf_floor, confidence_threshold, conf_ceiling}

\* tune_confidence(obs) with n recent events of which s succeeded, current
\* the stored preference: the new threshold
tune_confidence(current, n, s) ==
    IF n = 0 THEN current
    ELSE IF 10 * s > 9 * n /\ current > conf_floor THEN current - 1
    ELSE IF 10 * s < 7 * n /\ current < conf_ceiling THEN current + 2
    ELSE current

\* memory.set_preference(key, value): the row of the table and
\* SESSION["user_preferences"][key]
set_preference(r, value) ==
    [r EXCEPT !.table = value, !.session.user_preferences = value]

\* run() before the loop: the preferences table is read into
\* SESSION["user_preferences"], and SESSION["voice_prefs"] is built from it
Run ==
    \E stored \in StoredThresholds :
        /\ ret.call = "init"
        /\ ret' = [call |-> "run", arg |-> <<>>, out |-> <<>>, table |-> stored,
                   session |-> [user_preferences |-> stored, voice_prefs |-> stored]]
        /\ UNCHANGED <<fs, stack, undo_log, events, now, nlog, safetyVars, coreVars>>

Running == ret.call \in {"run", "tune_confidence", "gate"}

\* self_improver.run(): tune_confidence on the recent events
TuneConfidence ==
    \E n \in 0..MaxRecent : \E s \in 0..n :
        LET new_conf == tune_confidence(ret.table, n, s) IN
        /\ Running
        /\ ret' = [(IF new_conf # ret.table THEN set_preference(ret, new_conf) ELSE ret)
                       EXCEPT !.call = "tune_confidence", !.arg = <<n, s>>,
                              !.out = [changed |-> new_conf # ret.table]]
        /\ UNCHANGED <<fs, stack, undo_log, events, now, nlog, safetyVars, coreVars>>

\* the confidence gate of handle_intent: the threshold it reads from
\* SESSION["voice_prefs"], and whether the intent is held for confirmation
Gate ==
    \E intent \in HeardIntents \ {<<>>} :
        /\ Running
        /\ ret' = [ret EXCEPT !.call = "gate", !.arg = intent,
                              !.out = [threshold |-> ret.session.voice_prefs,
                                       held |-> Confidence(intent, 0)
                                                    < ret.session.voice_prefs]]
        /\ UNCHANGED <<fs, stack, undo_log, events, now, nlog, safetyVars, coreVars>>

NextThreshold ==
    \/ Run
    \/ TuneConfidence
    \/ Gate

\* one run of the daemon: the tuner and the gate on the session
SpecThreshold == Init /\ [][NextThreshold]_vars


-----------------------------------------------------------------------------
(* core/core.py: the actions of stored triggers on their way to route() *)

\* the actions a stored trigger may carry: JSON texts naming a path, and the
\* name of a pipeline
TriggerActions ==
    { JsonAction(<< Item(KeyIntent, TxtCreateFile), Item(KeyPath, NameA) >>),
      JsonAction(<< Item(KeyIntent, TxtCreateFile), Item(KeyPath, PathEtcFoo) >>),
      NameAction(TxtBuild) }

TriggerPlans ==
    {<<a>> : a \in TriggerActions} \cup {<<a, b>> : a \in TriggerActions, b \in TriggerActions}

ExecuteTriggered == ExecutePlanOf(TriggerPlans)

NextTriggers == ExecuteTriggered

\* the agent executing the actions of its triggers
SpecTriggers == Init /\ [][NextTriggers]_vars

\* memory.check_safety(intent, intent.get("action", ""), intent.get("path", ""))
Classify(intent) ==
    check_safety(safety_rules, intent, DictGet(intent, KeyAction), DictGet(intent, KeyPath))


-----------------------------------------------------------------------------
(* core/validator.py: validate_blueprint *)

\* the Python values a blueprint is made of
PyAbsent == [type |-> "absent"]
PyNone == [type |-> "NoneType"]
PyInt(n) == [type |-> "int", n |-> n]
PyStr(s) == [type |-> "str", s |-> s]
PyList(items) == [type |-> "list", items |-> items]

\* an entry of "files": a dict with or without the keys path and content
PyFile(path, content) == [type |-> "dict", path |-> path, content |-> content]

\* a blueprint dict with or without the keys folders and files
PyBlueprint(folders, files) == [type |-> "dict", folders |-> folders, files |-> files]

Space == " "
TxtNoneRepr == <<"N", "o", "n", "e">>

\* str.strip()
RECURSIVE LStrip(_)
LStrip(s) == IF s # <<>> /\ Head(s) = Space THEN LStrip(Tail(s)) ELSE s

RECURSIVE RStrip(_)
RStrip(s) ==
    IF s # <<>> /\ s[Len(s)] = Space THEN RStrip(SubSeq(s, 1, Len(s) - 1)) ELSE s

Strip(s) == RStrip(LStrip(s))

\* str(value)
PyToStr(v) ==
    IF v.type = "str" THEN v.s
    ELSE IF v.type = "int" THEN StrOfNat(v.n)
    ELSE TxtNoneRepr

\* whether a for loop can run over the value
Iterable(v) == v.type \in {"list", "str"}

\* what the loop runs over: the items of a list, the characters of a str
Iterated(v) ==
    IF v.type = "list" THEN v.items
    ELSE [i \in 1..Len(v.s) |-> PyStr(<<v.s[i]>>)]

\* [str(f).strip() for f in blueprint["folders"] if str(f).strip()]
RECURSIVE CleanFolders(_)
CleanFolders(items) ==
    IF items = <<>> THEN <<>>
    ELSE IF Strip(PyToStr(Head(items))) # <<>>
    THEN <<PyStr(Strip(PyToStr(Head(items))))>> \o CleanFolders(Tail(items))
    ELSE CleanFolders(Tail(items))

\* the loop over blueprint["files"]
RECURSIVE CleanFiles(_)
CleanFiles(items) ==
    IF items = <<>> THEN <<>>
    ELSE LET f == Head(items) IN
         IF f.type = "dict"
         THEN IF f.path.type # "absent"
              THEN << PyFile(PyStr(Strip(PyToStr(f.path))),
                             PyStr(IF f.content.type = "absent" THEN <<>>
                                   ELSE PyToStr(f.content))) >>
                   \o CleanFiles(Tail(items))
              ELSE CleanFiles(Tail(items))
         ELSE IF f.type = "str"
         THEN <<PyStr(Strip(f.s))>> \o CleanFiles(Tail(items))
         ELSE CleanFiles(Tail(items))

Validated(raised, value) == [raised |-> raised, value |-> value]

\* validate_blueprint(blueprint): what it raises, and the dict it returns or
\* leaves behind
validate_blueprint(blueprint) ==
    IF blueprint.type # "dict" THEN Validated("ValueError", blueprint)
    ELSE LET folders == IF blueprint.folders.type = "absent" THEN PyList(<<>>)
                        ELSE blueprint.folders
             files == IF blueprint.files.type = "absent" THEN PyList(<<>>)
                      ELSE blueprint.files
         IN  IF ~Iterable(folders)
             THEN Validated("TypeError", PyBlueprint(folders, files))
             ELSE IF ~Iterable(files)
             THEN Validated("TypeError",
                            PyBlueprint(PyList(CleanFolders(Iterated(folders))), files))
             ELSE Validated("none", PyBlueprint(PyList(CleanFolders(Iterated(folders))),
                                                PyList(CleanFiles(Iterated(files)))))

\* the sequences over S of length up to n
SeqsUpTo(S, n) == UNION { [1..k -> S] : k \in 0..n }

TxtSrc == <<"s", "r", "c">>
TxtPaddedA == <<" ", "a", " ">>

FolderItems == { PyStr(TxtSrc), PyStr(TxtPaddedA), PyStr(<<Space>>), PyInt(7) }

FileItems ==
    { PyFile(PyStr(TxtPaddedA), PyStr(TxtSrc)), PyFile(PyStr(TxtSrc), PyAbsent),
      PyFile(PyAbsent, PyStr(TxtSrc)), PyStr(TxtPaddedA), PyInt(7) }

\* what the caller may hand over: parsed JSON of any shape
BlueprintInputs ==
    { PyStr(TxtSrc), PyNone, PyList(<<>>) }
    \cup { PyBlueprint(folders, files) :
             folders \in { PyAbsent, PyNone, PyInt(7), PyStr(TxtSrc) }
                         \cup { PyList(items) : items \in SeqsUpTo(FolderItems, MaxItems) },
             files \in { PyAbsent, PyNone, PyStr(TxtPaddedA) }
                       \cup { PyList(items) : items \in SeqsUpTo(FileItems, MaxItems) } }

\* one call of validate_blueprint in a run
ValidateBlueprint ==
    \E blueprint \in BlueprintInputs :
        /\ ret.call # "validate_blueprint"
        /\ ret' = [call |-> "validate_blueprint", arg |-> blueprint,
                   out |-> validate_blueprint(blueprint)]
        /\ UNCHANGED <<fs, stack, undo_log, events, now, nlog, safetyVars, coreVars>>

NextBlueprint == ValidateBlueprint

\* validate_blueprint over the inputs
SpecBlueprint == Init /\ [][NextBlueprint]_vars

-----------------------------------------------------------------------------
(* Properties of the undo manager and the executors *)

PathP == <<NameP>>
PathPA == <<NameP, NameA>>

Trash(tree) == Get(tree, TRASH_DIR)

\* the node x occurs in the tree below node (node itself included)
RECURSIVE Occurs(_, _)
Occurs(node, x) ==
    \/ node = x
    \/ \E n \in DOMAIN node.kids : Occurs(node.kids[n], x)

\* the inverse kinds _execute_undo has a branch for
HandledKinds == {"delete_project", "uninstall_dependency", "git_reset_commit",
                 "restore_file", "restore_folder"}

\* the last call was a successful create_file, create_folder, delete_file or
\* delete_folder, or a create_project without folders and files: its ledger
\* entry is the newest
MutatedAndLogged ==
    \/ /\ ret.call = "execute_command"
       /\ ret.arg[1] \in {"create_folder", "create_file", "delete_folder", "delete_file"}
       /\ ret.out \in LoggedReplies
    \/ /\ ret.call = "apply_blueprint"
       /\ BlueprintEntries(ret.arg[2]) = 1

MutatedPath == IF ret.call = "execute_command" THEN ret.arg[2] ELSE ret.arg[1]

\* C1: undo_last called right after a successful create_file, create_folder,
\* create_project, delete_file or delete_folder restores the existence the
\* path had before the operation, and the ledger gets shorter by exactly 1.
C1_UndoRestoresPreState ==
    [][ (MutatedAndLogged /\ ret'.call = "undo_last")
        => /\ Exists(fs', MutatedPath) = (ret.was # "none")
           /\ Len(stack') = Len(stack) - 1 ]_vars

\* C2: when undo_last pops an entry whose inverse kind the undo executor has
\* no branch for, the undo fails: the ledger (in memory and on disk) is as
\* before the call, undo_last reports the failure and logs undo_failed.
C2_UnknownInverseFails ==
    [][ (ret'.call = "undo_last" /\ stack # <<>>
         /\ Last(stack).undo_action \notin HandledKinds)
        => /\ stack' = stack
           /\ undo_log' = undo_log
           /\ ret'.out = UndoFailed
           /\ events' = Append(events, [event_type |-> "undo_failed",
                                        operation |-> Last(stack).operation]) ]_vars

\* C3: every undo_last on a non-empty ledger logs exactly one event: either
\* undo_executed, and the ledger is the previous one without its newest
\* entry, or undo_failed, and the ledger in memory and on disk is the one
\* before the call.
C3_UndoLogsOneEvent ==
    [][ (ret'.call = "undo_last" /\ stack # <<>>)
        => \/ /\ ret'.out[1] = "Undone"
              /\ events' = Append(events, [event_type |-> "undo_executed",
                                           operation |-> Last(stack).operation])
              /\ stack' = Front(stack)
              /\ undo_log' = stack'
           \/ /\ ret'.out = UndoFailed
              /\ events' = Append(events, [event_type |-> "undo_failed",
                                           operation |-> Last(stack).operation])
              /\ stack' = stack
              /\ undo_log' = undo_log
              /\ undo_log' = stack' ]_vars

\* an undo_last has failed and has put its entry back
C3_Witness ==
    /\ ret.call = "undo_last"
    /\ ret.out = UndoFailed
    /\ stack # <<>>
    /\ events # <<>>
    /\ Last(events).event_type = "undo_failed"
    /\ undo_log = stack

\* the number of undo_executed events among the events from index i on
RECURSIVE Executed(_, _)
Executed(evs, i) ==
    IF i > Len(evs) THEN 0
    ELSE (IF evs[i].event_type = "undo_executed" THEN 1 ELSE 0) + Executed(evs, i + 1)

\* C4: after any sequence of log_operation, undo_last and undo_multiple calls
\* the ledger holds at most 50 entries, in logging order: a log_operation
\* puts its entry on top of the newest (at most 49) entries there were, and
\* an undo removes entries from the top only, one for each undo executed.
C4_LedgerBoundedLifo ==
    [][ /\ Len(stack') <= StackLimit
        /\ \A i \in 1..(Len(stack') - 1) : stack'[i].timestamp <= stack'[i + 1].timestamp
        /\ (ret'.call = "log_operation")
           => /\ Len(stack') = Min(Len(stack) + 1, StackLimit)
              /\ Front(stack') = Newest(stack, Len(stack') - 1)
              /\ Last(stack').timestamp = now
              /\ Last(stack').operation = ret'.arg[1]
        /\ (ret'.call \in {"undo_last", "undo_multiple"})
           => /\ Len(stack') <= Len(stack)
              /\ stack' = SubSeq(stack, 1, Len(stack'))
              /\ Len(stack) - Len(stack') = Executed(events', Len(events) + 1) ]_vars

\* the ledger is full and its oldest entries have been dropped: the oldest
\* entry left is newer than the second entry of any loaded ledger
C4_Witness ==
    /\ Len(stack) = StackLimit
    /\ ret.call = "log_operation"
    /\ stack[1].timestamp > 2 - StackLimit

C6_UndoTwoRemovesFolder ==
    [][ (/\ ret'.call = "undo_multiple"
         /\ ret'.arg = <<2>>
         /\ Len(stack) = 2
         /\ stack[1].operation = "create_folder"
         /\ stack[1].details.path = StrOfPath(PathP)
         /\ stack[2].operation = "create_file"
         /\ stack[2].details.path = StrOfPath(PathPA)
         /\ IsDir(fs, PathP)
         /\ IsFile(fs, PathPA))
        => /\ stack' = <<>>
           /\ ~Exists(fs', PathP)
           /\ Trash(fs') # Trash(fs) ]_vars

\* C7: a second create_folder with the same path reports that the folder
\* already exists, changes nothing on the filesystem and appends no ledger
\* entry.
C7_CreateFolderIdempotent ==
    [][ (/\ ret.call = "execute_command"
         /\ ret.arg[1] = "create_folder"
         /\ ret.out = "Folder created"
         /\ ret'.call = "execute_command"
         /\ ret'.arg = ret.arg)
        => /\ ret'.out = "Folder already exists"
           /\ fs' = fs
           /\ stack' = stack ]_vars

\* the step is a single call of the executor or of undo_last, and not the
\* force variant
SoftCall ==
    /\ ret'.call \in {"execute_command", "undo_last"}
    /\ ~(ret'.call = "execute_command" /\ ret'.arg[1] = "force_delete")

\* C8: delete_file, delete_folder and the undo of create_project (every call
\* that is not a force variant) are soft: whatever such a call removes from
\* its path is, unchanged, in the trash afterwards.
C8_DeleteIsSoft ==
    [][ SoftCall
        => \A path \in Paths :
              (Exists(fs, path) /\ ~Exists(fs', path))
                  => Occurs(Trash(fs'), Get(fs, path)) ]_vars

\* a folder with a file in it has been deleted and is in the trash
C8_Witness ==
    /\ ret.call = "execute_command"
    /\ ret.arg = <<"delete_folder", PathP>>
    /\ ret.out = "Folder moved to trash"
    /\ ~Exists(fs, PathP)
    /\ \E n \in DOMAIN Trash(fs).kids :
          Trash(fs).kids[n].kind = "dir" /\ NameA \in DOMAIN Trash(fs).kids[n].kids

-----------------------------------------------------------------------------
(* Properties of the safety classifier *)

Checked == verdict.result.action # "none"

\* the call is about a force variant: "force" occurs in the action text or in
\* the intent
ForceVariant ==
    \/ IsSubstr(PatForce, Lower(verdict.action))
    \/ IsSubstr(PatForce, Lower(StrOfDict(verdict.intent)))

\* the path given starts with a protected path
ProtectedPath ==
    /\ verdict.path # <<>>
    /\ \E i \in 1..Len(PROTECTED_PATHS) : StartsWith(verdict.path, PROTECTED_PATHS[i])

\* C9: every force variant of a destructive action is classified at level
\* CRITICAL, never lower.
C9_ForceIsCritical ==
    (Checked /\ ForceVariant) => verdict.result.level = "CRITICAL"

\* C10: for every intent and every action text, a path that starts with a
\* protected path is denied at level CRITICAL, whatever the rule table holds.
C10_ProtectedPathDenied ==
    (Checked /\ ProtectedPath)
        => /\ verdict.result.action = "deny"
           /\ verdict.result.level = "CRITICAL"
           /\ verdict.result.safe = FALSE

\* a read-only intent with a path below /etc has been denied, with a rule
\* table whose first dangerous_action rule allows
C10_Witness ==
    /\ Checked
    /\ DictGet(verdict.intent, KeyIntent) \in ReadOnlyIntents
    /\ verdict.path = PathEtcFoo
    /\ verdict.result.action = "deny"
    /\ \E i \in 1..Len(safety_rules) :
          safety_rules[i].rule_type = "dangerous_action" /\ safety_rules[i].action = "allow"

\* the intent of the call is one of the read-only intents
ReadOnlyCall == DictGet(verdict.intent, KeyIntent) \in ReadOnlyIntents

\* C11: for every intent whose name is in the read-only set, the verdict is
\* allow at level SAFE, whatever the action text and the other fields.
C11_ReadOnlyIsSafe ==
    (Checked /\ ReadOnlyCall)
        => /\ verdict.result.action = "allow"
           /\ verdict.result.level = "SAFE"

\* rule i of the table is one the classifier scans, and its pattern occurs in
\* the lowercased action text or the lowercased representation of the intent
RuleMatches(rules, i, v) ==
    /\ rules[i].rule_type = "dangerous_action"
    /\ \/ IsSubstr(rules[i].pattern, Lower(v.action))
       \/ IsSubstr(rules[i].pattern, Lower(StrOfDict(v.intent)))

\* the (rule_type, pattern) keys of the table, in table order
RuleKeys(rules) == [i \in 1..Len(rules) |-> <<rules[i].rule_type, rules[i].pattern>>]

\* C12: when one or more rules match (and no protected path does), the
\* verdict carries the action and the reason of the matching rule that comes
\* first in the table; and defining a rule never reorders the table: the
\* rules already defined keep their places, a new one goes to the end.
C12_FirstMatchWins ==
    [][/\ (verdict' # verdict /\ ~ProtectedPath')
            => \A i \in 1..Len(safety_rules) :
                  (/\ RuleMatches(safety_rules, i, verdict')
                   /\ \A j \in 1..(i - 1) : ~RuleMatches(safety_rules, j, verdict'))
                  => /\ verdict'.result.action = safety_rules[i].action
                     /\ verdict'.result.reason.text = safety_rules[i].reason
       /\ (safety_rules' # safety_rules)
            => /\ Len(safety_rules') >= Len(safety_rules)
               /\ SubSeq(RuleKeys(safety_rules'), 1, Len(safety_rules))
                      = RuleKeys(safety_rules)
      ]_vars

\* "force_delete" has been classified by a table in which the rule "delete"
\* (allow) comes before the rule "force" (confirm): the verdict is the former's
C12_Witness ==
    /\ Checked
    /\ verdict.path = <<>>
    /\ verdict.action = TxtForceDelete
    /\ verdict.result.action = "allow"
    /\ \E i, j \in 1..Len(safety_rules) :
          /\ i < j
          /\ RuleMatches(safety_rules, i, verdict)
          /\ RuleMatches(safety_rules, j, verdict)
          /\ safety_rules[i].pattern = PatDelete /\ safety_rules[i].action = "allow"
          /\ safety_rules[j].pattern = PatForce /\ safety_rules[j].action = "confirm"

-----------------------------------------------------------------------------
(* Properties of the rate limiter *)

\* the step is a call of check
CheckStep == clock' = clock /\ <<usage, gov>>' # <<usage, gov>>

\* the entries of a window that are younger than one hour at time t
Young(times, t) == {i \in 1..Len(times) : t - times[i] < Hour}

\* C13 as stated: the 1st and the 2nd check('delete') within a rolling hour
\* return true, the 3rd within that hour returns false.
C13_TwoDeletionsPerHour ==
    [][(CheckStep /\ gov'.action_type = "delete")
          => gov'.result = (Cardinality(Young(usage.deletions, clock))
                                < max_deletions_per_hour)]_vars

\* C13, amended: while the all-actions window holds fewer than 20 entries
\* younger than one hour, the 1st and the 2nd check('delete') within a rolling
\* hour return true; the 3rd within that hour returns false in every case.
C13_TwoDeletionsBelowCeiling ==
    [][(CheckStep /\ gov'.action_type = "delete")
          => /\ (Cardinality(Young(usage.deletions, clock)) >= max_deletions_per_hour)
                    => gov'.result = FALSE
             /\ (/\ Cardinality(Young(usage.deletions, clock)) < max_deletions_per_hour
                 /\ Cardinality(Young(usage.actions, clock)) < max_actions_per_hour)
                    => gov'.result = TRUE]_vars

\* a third deletion within the hour has been refused below the ceiling
C13_Witness ==
    /\ gov.action_type = "delete"
    /\ gov.result = FALSE
    /\ Len(usage.deletions) = 2
    /\ usage.deletions[1] # usage.deletions[2]
    /\ Len(usage.actions) < max_actions_per_hour

\* C14: the all-actions window never holds more than 20 timestamps younger
\* than one hour; every call that returns true is recorded in it, so that at
\* most 20 calls return true in a rolling hour; and a call made while it
\* holds 20 returns false.
C14_CeilingOfTwenty ==
    /\ [](Cardinality(Young(usage.actions, clock)) <= max_actions_per_hour)
    /\ [][CheckStep
            => /\ (Cardinality(Young(usage.actions, clock)) >= max_actions_per_hour)
                    => gov'.result = FALSE
               /\ gov'.result = TRUE
                    => usage'.actions = Append(Recent(usage.actions, clock), clock)
               /\ gov'.result = FALSE
                    => usage'.actions = Recent(usage.actions, clock)]_vars

\* a call has been refused with 20 entries in the all-actions window
C14_Witness ==
    /\ gov.result = FALSE
    /\ gov.action_type = "normal"
    /\ Cardinality(Young(usage.actions, clock)) = max_actions_per_hour

\* C15: a check('delete') refused because the delete window holds 2 entries,
\* or a check('reset') refused because the reset window holds 1, records
\* nothing: the three windows lose their entries of 3600 seconds or older and
\* are otherwise as before the call.
C15_RefusedRecordsNothing ==
    [][(/\ CheckStep
        /\ \/ /\ gov'.action_type = "delete"
              /\ Cardinality(Young(usage.deletions, clock)) >= max_deletions_per_hour
           \/ /\ gov'.action_type = "reset"
              /\ Cardinality(Young(usage.resets, clock)) >= max_git_resets)
          => /\ gov'.result = FALSE
             /\ usage'.actions = Recent(usage.actions, clock)
             /\ usage'.deletions = Recent(usage.deletions, clock)
             /\ usage'.resets = Recent(usage.resets, clock)]_vars

\* a reset has been refused while an older entry was pruned from a window
C15_Witness ==
    /\ gov.action_type = "reset"
    /\ gov.result = FALSE
    /\ Len(usage.resets) = 1
    /\ usage.resets[1] # clock
    /\ usage.actions # <<>>

\* C34: a check('delete') or check('reset') that passes its category limit
\* and is refused by the ceiling of 20 returns false and still leaves its
\* timestamp in the category window, where it takes one of the slots of the
\* hour; the all-actions window gets no entry.
C34_RefusedByCeilingIsCounted ==
    [][(/\ CheckStep
        /\ Cardinality(Young(usage.actions, clock)) >= max_actions_per_hour)
          => /\ (/\ gov'.action_type = "delete"
                 /\ Cardinality(Young(usage.deletions, clock)) < max_deletions_per_hour)
                   => /\ gov'.result = FALSE
                      /\ usage'.deletions = Append(Recent(usage.deletions, clock), clock)
                      /\ usage'.actions = Recent(usage.actions, clock)
             /\ (/\ gov'.action_type = "reset"
                 /\ Cardinality(Young(usage.resets, clock)) < max_git_resets)
                   => /\ gov'.result = FALSE
                      /\ usage'.resets = Append(Recent(usage.resets, clock), clock)
                      /\ usage'.actions = Recent(usage.actions, clock)]_vars

\* a deletion refused by the ceiling has taken a slot of the delete window
C34_Witness ==
    /\ gov.action_type = "delete"
    /\ gov.result = FALSE
    /\ Cardinality(Young(usage.actions, clock)) = max_actions_per_hour
    /\ usage.deletions # <<>>
    /\ usage.deletions[Len(usage.deletions)] = clock

-----------------------------------------------------------------------------
(* Properties of the agent *)

\* the events and the routed intents the step has added
NewEvents == SubSeq(events', Len(events) + 1, Len(events'))
NewRouted == SubSeq(routed', Len(routed) + 1, Len(routed'))

\* the check calls of the step that returned r, in order
ChecksWith(r) == SelectSeq(checks', LAMBDA c : c.result = r)

\* C16: whenever check returns false for an action, the action is not handed
\* to route, and a governor_block event with its intent is appended: the
\* intents routed by a plan are those of the checks that returned true, and
\* every check leaves one event, governor_block exactly when it returned false.
C16_BlockedNotRouted ==
    [][(events' # events \/ checks' # checks)
          => /\ NewRouted = [i \in 1..Len(ChecksWith(TRUE)) |-> ChecksWith(TRUE)[i].intent]
             /\ Len(NewEvents) = Len(checks')
             /\ \A i \in 1..Len(checks') :
                   /\ NewEvents[i].operation = checks'[i].intent
                   /\ (NewEvents[i].event_type = "governor_block") = ~checks'[i].result]_vars

\* a plan of two actions had its second refused by the governor and its first
\* routed
C16_Witness ==
    /\ Len(checks) = 2
    /\ checks[1].result = TRUE
    /\ checks[2].result = FALSE
    /\ Len(events) >= 2
    /\ events[Len(events)].event_type = "governor_block"
    /\ routed # <<>>

-----------------------------------------------------------------------------
(* Properties of the conversational state machine *)

\* the step is a round of the daemon loop in which a command was heard
HandleStep == events' # events /\ handled'.heard

\* C17: in state listening, an intent with a confidence below the threshold
\* and an allow verdict moves the machine to confirming with the intent
\* stored as pending and is not dispatched; while it is pending, it is only
\* dispatched by a round whose response is a confirmation.
C17_LowConfidenceConfirms ==
    [][/\ (/\ HandleStep
           /\ state = "listening"
           /\ handled'.intent # <<>>
           /\ handled'.safety.action = "allow"
           /\ Confidence(handled'.intent, 0) < confidence_threshold)
            => /\ state' = "confirming"
               /\ pending_action'.set
               /\ pending_action'.intent = handled'.intent
               /\ dispatched' = dispatched
       /\ (/\ state = "confirming"
           /\ pending_action.set
           /\ pending_action.reason = "Low confidence"
           /\ dispatched' # dispatched)
            => /\ handled'.heard
               /\ DictGet(handled'.intent, KeyResponse) = TxtConfirm
               /\ dispatched' = Append(dispatched, pending_action.intent)
      ]_vars

\* an intent of confidence 0.5 with an allow verdict is pending, undispatched
C17_Witness ==
    /\ state = "confirming"
    /\ handled.state = "listening"
    /\ handled.safety.action = "allow"
    /\ Confidence(handled.intent, 0) = 50
    /\ pending_action.set
    /\ pending_action.intent = handled.intent
    /\ dispatched = <<>>

\* C18: in state listening, an intent whose verdict is deny returns the
\* machine to idle with the reason spoken; it is neither returned for
\* execution nor dispatched nor stored as pending, whatever its confidence.
C18_DenyAborts ==
    [][(/\ HandleStep
        /\ state = "listening"
        /\ handled'.safety.action = "deny")
          => /\ state' = "idle"
             /\ handled'.left = "idle"
             /\ handled'.returned = <<>>
             /\ dispatched' = dispatched
             /\ ~pending_action'.set
             /\ \E i \in 1..Len(handled'.said) :
                   /\ handled'.said[i].text = "Cannot proceed"
                   /\ handled'.said[i].reason = handled'.safety.reason
      ]_vars

\* a denied intent of confidence 0.5 has sent the machine back to idle
C18_Witness ==
    /\ handled.heard
    /\ handled.state = "listening"
    /\ handled.safety.action = "deny"
    /\ Confidence(handled.intent, 0) < confidence_threshold
    /\ state = "idle"

\* C19: in state confirming, a pending intent whose verdict level is CRITICAL
\* is not executed on the plain response "confirm".
C19_CriticalNeedsStrongerConfirm ==
    [][(/\ HandleStep
        /\ state = "confirming"
        /\ pending_action.set
        /\ pending_action.safety_check.level = "CRITICAL"
        /\ DictGet(handled'.intent, KeyResponse) = TxtConfirm)
          => /\ handled'.returned = <<>>
             /\ dispatched' = dispatched
      ]_vars

\* C20: in state confirming, a response other than the required confirmation
\* moves the machine to idle, discards the pending intent without executing
\* it, and logs a negative-feedback record for the cancelled intent.
C20_CancelLogsFeedback ==
    [][(/\ HandleStep
        /\ state = "confirming"
        /\ pending_action.set
        /\ DictGet(handled'.intent, KeyResponse) # TxtConfirm
        /\ ~HasKey(handled'.intent, KeyRaw))
          => /\ state' = "idle"
             /\ ~pending_action'.set
             /\ dispatched' = dispatched
             /\ feedback' = Append(feedback, [intent |-> pending_action.intent,
                                              kind |-> "cancel"])
      ]_vars

-----------------------------------------------------------------------------
(* Properties of the daemon loop, the workflows, the memory and the watcher *)

TxtBusy == "I was busy executing. Please repeat your command."

C25_HookCalledOnce ==
    [][(pc.at = "route" /\ pc'.at = "top" /\ hooks'.outcome = "ok"
        /\ DictGet(hooks'.intent, KeySource) # TxtWorkflow)
          => hooks'.calls = 1]_vars

\* the rows of the memory table that hold the workflow remembered for a
\* trigger and a scope
RememberedFor(intent_name, tech, scope) ==
    { i \in 1..Len(memory_rows) :
        /\ memory_rows[i].value.kind = "workflow"
        /\ memory_rows[i].value.trigger = Trigger(intent_name, tech)
        /\ memory_rows[i].value.scope = scope }

\* C23: a workflow remembered for a trigger and a scope is among the
\* workflows get_workflows_for_trigger returns for that trigger's intent and
\* tech and that scope, with the remembered actions, whatever else the memory
\* table holds.
C23_RoundTrip ==
    [][looked_up' # looked_up
         => \A i \in RememberedFor(looked_up'.intent_name, looked_up'.tech, looked_up'.scope) :
                /\ ~looked_up'.raised
                /\ \E j \in 1..Len(looked_up'.result) :
                       looked_up'.result[j].actions = memory_rows[i].value.actions]_vars

\* the stored workflows the lookup is to return: enabled, the trigger's
\* intent equal, the trigger's tech equal or unset, the scope equal
Matching(intent_name, tech, scope) ==
    { memory_rows[i].value :
        i \in { j \in 1..Len(memory_rows) :
                  /\ memory_rows[j].value.kind = "workflow"
                  /\ memory_rows[j].value.enabled
                  /\ memory_rows[j].value.trigger.intent = intent_name
                  /\ memory_rows[j].value.trigger.tech \in {tech, <<>>}
                  /\ memory_rows[j].value.scope = scope } }

\* C24: get_workflows_for_trigger returns exactly the enabled stored workflows
\* whose trigger has the intent asked for and the tech asked for or none, in
\* the scope asked for, by descending confidence.
C24_ExactlyTheMatching ==
    [][looked_up' # looked_up
         => /\ ~looked_up'.raised
            /\ { looked_up'.result[j] : j \in 1..Len(looked_up'.result) }
                 = Matching(looked_up'.intent_name, looked_up'.tech, looked_up'.scope)
            /\ \A j \in 1..(Len(looked_up'.result) - 1) :
                   looked_up'.result[j].confidence >= looked_up'.result[j + 1].confidence]_vars

\* C26: applying a workflow never starts another application: no
\* execute_workflow call runs inside another, and the hook on an intent
\* tagged as a workflow's routes and applies nothing.
C26_NoNestedApplication ==
    /\ flow.w.nesting <= 1
    /\ (flow.call.name = "after_intent_execution"
        /\ DictGet(flow.call.intent, KeySource) = TxtWorkflow)
         => flow.w.routed = <<>> /\ flow.w.applied = <<>>

\* C27: while a workflow is applied, an action whose verdict is deny is not
\* routed, and an action whose verdict is confirm is routed only after a
\* prompt that was answered with yes.
C27_ClassifiedBeforeRouted ==
    \A i \in 1..Len(flow.w.routed) :
        /\ flow.w.routed[i].verdict # "deny"
        /\ flow.w.routed[i].verdict = "confirm"
             => flow.w.routed[i].prompts >= 1 /\ flow.call.answer

\* the pairs of successful events, the earlier one first, that name the
\* intents of a suggestion
PairsOf(suggestion) ==
    { i \in 1..(Len(events) - 1) :
        /\ events[i].success /\ events[i + 1].success
        /\ events[i].intent = JsonOfDict(<< Item(KeyIntent, suggestion.trigger.intent) >>)
        /\ events[i + 1].intent = JsonOfDict(<< Item(KeyIntent, suggestion.actions[1]) >>) }

\* C28: what detect_repeated_pattern(min) returns names a pair of successful
\* events that follow one another at least min times: the trigger is the
\* name of the earlier event's intent, the one action the name of the
\* following event's intent.
C28_PatternIsFollowedBy ==
    [][(detected' # detected /\ detected'.out.found)
         => /\ Len(detected'.out.actions) = 1
            /\ Cardinality(PairsOf(detected'.out)) >= detected'.min_occurrences]_vars

\* C29: every change the watcher flags is consumed by the main thread exactly
\* once: the flag is never cleared more often than changes were flagged, and
\* once the flag is clear and no reader is about to clear it, every change
\* flagged was seen by the reader that cleared it.
C29_ConsumedExactlyOnce ==
    /\ consumptions <= detections
    /\ (project_status = "none" /\ reader.at = "test") => reader.seen = detections

\* the actions the loop has logged as completed
Completed == Cardinality({ i \in 1..Len(events) : events[i].event_type = "action_completed" })

\* C30: the tuner runs on the main loop every ten completed actions: once an
\* iteration has begun after the tenth completed action (an eleventh action
\* is completed), the tuner has run.
C30_TunerEveryTen == Completed > improvement_period => tuner_runs >= 1

-----------------------------------------------------------------------------
(* Properties of the validator, the ledger file and the daemon's faults *)

\* C33: validate_blueprint raises ValueError for every input that is not a
\* dict, and for every dict it returns a dict whose folders and files are
\* lists.
C33_ValidatesEveryDict ==
    ret.call = "validate_blueprint"
      => IF ret.arg.type # "dict" THEN ret.out.raised = "ValueError"
         ELSE /\ ret.out.raised = "none"
              /\ ret.out.value.type = "dict"
              /\ ret.out.value.folders.type = "list"
              /\ ret.out.value.files.type = "list"

\* C32: the ledger keeps the logging order under interleaving: an entry
\* never stands above an entry that was logged after it, also when a
\* log_operation falls between the pop and the re-push of undo_last.
C32_LedgerInLoggingOrder ==
    \A i \in 1..Len(stack) : \A j \in 1..Len(stack) :
        i < j => stack[i].timestamp <= stack[j].timestamp

\* C39: every write of the ledger file holds at most 50 entries.
C39_FileNeverOverLimit == Len(undo_log) <= StackLimit

\* the replies of a soft delete
MovedToTrash == {"Folder moved to trash", "File moved to trash"}

\* C36: a soft delete is reversible: undo_last directly after a delete_file
\* or delete_folder of path p that moved p to the trash puts back at p the
\* very entry that was deleted, whatever else the trash holds.
C36_SoftDeleteIsReversible ==
    [][(/\ ret.call = "execute_command"
        /\ ret.out \in MovedToTrash
        /\ ret'.call = "undo_last")
         => LET entry == Last(stack)
                deleted == Get(fs, PathOfStr(entry.details.trash_path))
            IN  /\ ret'.out[1] = "Undone"
                /\ Get(fs', ret.arg[2]) = deleted]_vars

\* C37: whenever the state machine is idle, no pending intent is stored.
C37_IdleHasNoPending == state = "idle" => pending_action = None_

\* the events the loop logs before it breaks
StopEvents == {"system_stop", "system_stop_manual"}

\* C31: the daemon terminates only on a stop intent or a manual interrupt:
\* whenever the loop has been left, the last event logged is the stop's,
\* also after a persistence call or the Executor has failed in a cycle.
C31_TerminatesOnlyOnStop ==
    pc.at \notin {"top", "route"}
      => /\ pc.at = "stopped"
         /\ events # <<>>
         /\ Last(events).event_type \in StopEvents

\* the machine has entered state s at some point
Entered(s) ==
    \E j \in 1..Len(events) :
        /\ events[j].event_type = "state_change"
        /\ events[j].operation[2] = s

\* C35: an intent that carries the ambiguous flag or has confidence below
\* 0.7 is dispatched only after the machine has passed through clarifying.
C35_ClarifiedBeforeDispatch ==
    \A i \in 1..Len(dispatched) : Vague(dispatched[i]) => Entered("clarifying")

\* C40: the threshold the gate of the state machine uses is the one the
\* tuner last stored: a change made by tune_confidence is used by the next
\* gate of the same run.
C40_GateUsesTunedThreshold ==
    ret.call = "gate" => ret.out.threshold = ret.table

\* C38: an intent is passed to route() only after the classifier has been
\* evaluated on it and has not returned deny: no intent the agent has
\* routed is one the classifier denies.
C38_RoutedOnlyIfNotDenied ==
    \A i \in 1..Len(routed) : Classify(routed[i]).action # "deny"

====
